---- MODULE Spec2Model ----
(***************************************************************************)
(* TCSRS: the spaced-repetition engine (app/services/srs_engine.py) and    *)
(* the review endpoints that call it (app/routers/review.py).              *)
(*                                                                         *)
(* Numbers.  The engine computes on Python floats.  The model computes on  *)
(* exact rationals [n, d] in lowest terms; every literal of the source     *)
(* (2.4, 0.5, 0.15, 0.3, 0.12, ...) is the decimal fraction it is written  *)
(* as.  Times are datetimes [s, us]: whole seconds since an epoch and      *)
(* microseconds, the resolution of datetime and timedelta.                 *)
(***************************************************************************)
EXTENDS Integers, Sequences, FiniteSets, TLC

VARIABLES
    pc,                \* engine harness: "start", or the engine function that was called
    topic,             \* engine harness: the topic dict passed to process_review
    base_score,        \* engine harness: argument base_score
    intrinsic_weight,  \* engine harness: argument intrinsic_weight
    current_time,      \* engine harness: argument current_time (None: not passed)
    clock,             \* what datetime.now() returns
    ret,               \* harness: the value the call returned
    topics,            \* the rows of table "topics", by id
    draw,              \* sampler harness: what random.random() returned to sample_card
    response,          \* the response of the last GET request
    requests           \* the requests that write, in order of arrival, each with
                       \* the handler's position and local values

vars ==
    <<pc, topic, base_score, intrinsic_weight, current_time, clock, ret,
      topics, draw, response, requests>>

engineArgs == <<topic, base_score, intrinsic_weight, current_time>>

---------------------------------------------------------------------------
(* Rational arithmetic *)

RECURSIVE GCD(_, _)
GCD(a, b) == IF b = 0 THEN a ELSE GCD(b, a % b)

Abs(x) == IF x < 0 THEN -x ELSE x

\* the rational n/d (d > 0) in lowest terms
Rat(n, d) == LET g == GCD(Abs(n), d) IN [n |-> n \div g, d |-> d \div g]

Num(k) == [n |-> k, d |-> 1]

Mul(a, b) ==
    LET g1 == GCD(Abs(a.n), b.d)
        g2 == GCD(Abs(b.n), a.d)
    IN  IF a.n = 0 \/ b.n = 0 THEN Num(0)
        ELSE [n |-> (a.n \div g1) * (b.n \div g2), d |-> (a.d \div g2) * (b.d \div g1)]

Add(a, b) ==
    LET g == GCD(a.d, b.d)
    IN  Rat(a.n * (b.d \div g) + b.n * (a.d \div g), (a.d \div g) * b.d)

Neg(a) == [n |-> -a.n, d |-> a.d]

Sub(a, b) == Add(a, Neg(b))

Lt(a, b) == a.n * b.d < b.n * a.d

Le(a, b) == a.n * b.d <= b.n * a.d

\* Python's max(a, b) and min(a, b) of two arguments: the first one wins a tie
PyMax(a, b) == IF Lt(a, b) THEN b ELSE a

PyMin(a, b) == IF Lt(b, a) THEN b ELSE a

\* Python's None, shaped like a number so that it compares with one
None == [n |-> 0, d |-> 0]

---------------------------------------------------------------------------
(* datetime and timedelta *)

datetime(s, us) == [s |-> s, us |-> us]

\* timedelta(hours=h): h hours rounded to a whole number of microseconds,
\* ties to even, normalised to 0 <= us < 1000000
timedelta_hours(h) ==
    LET d     == h.d
        whole == h.n \div d
        r0    == h.n % d
        m     == (r0 * 60) \div d
        r1    == (r0 * 60) % d
        s     == (r1 * 60) \div d
        r2    == (r1 * 60) % d
        a     == (r2 * 100) \div d
        r3    == (r2 * 100) % d
        b     == (r3 * 100) \div d
        r4    == (r3 * 100) % d
        c     == (r4 * 100) \div d
        r5    == (r4 * 100) % d
        us0   == a * 10000 + b * 100 + c
        up    == (2 * r5 > d) \/ (2 * r5 = d /\ us0 % 2 = 1)
        us1   == IF up THEN us0 + 1 ELSE us0
        secs  == whole * 3600 + m * 60 + s
    IN  IF us1 = 1000000 THEN [s |-> secs + 1, us |-> 0] ELSE [s |-> secs, us |-> us1]

\* datetime + timedelta
dt_add(t, delta) ==
    LET us == t.us + delta.us
    IN  IF us >= 1000000 THEN [s |-> t.s + delta.s + 1, us |-> us - 1000000]
        ELSE [s |-> t.s + delta.s, us |-> us]

\* datetime < datetime, datetime <= datetime
dt_lt(t, u) == t.s < u.s \/ (t.s = u.s /\ t.us < u.us)

dt_le(t, u) == t.s < u.s \/ (t.s = u.s /\ t.us <= u.us)

---------------------------------------------------------------------------
(* srs_engine.py: constants *)

MIN_STABILITY == Rat(24, 10)

MAX_STABILITY == Num(8760)

MIN_DIFFICULTY == Num(1)

MAX_DIFFICULTY == Num(10)

EXPECTED_SCORE == Num(2)

DIFFICULTY_RATE == Rat(3, 10)

---------------------------------------------------------------------------
(* srs_engine.py: update_stability *)

\* a bug again_stability could have: the factor 0.5 left out
again_stability_kept(current_stability) == PyMax(MIN_STABILITY, current_stability)

\* base_score == 0: max(MIN_STABILITY, current_stability * 0.5)
again_stability(current_stability) ==
    PyMax(MIN_STABILITY, Mul(current_stability, Rat(5, 10)))

\* a bug grown_stability could have: the card's weight left out of the growth
grown_stability_unweighted(current_stability, bs, w) ==
    Mul(current_stability, Add(Num(1), Mul(Num(bs), Rat(15, 100))))

\* a bug grown_stability could have: the growth subtracted from 1
grown_stability_subtracted(current_stability, bs, w) ==
    Mul(current_stability, Sub(Num(1), Mul(Mul(Num(bs), w), Rat(15, 100))))

\* base_score != 0: current_stability * (1 + base_score * intrinsic_weight * 0.15)
grown_stability(current_stability, bs, w) ==
    LET effective_score == Mul(Num(bs), w)
        growth_factor   == Add(Num(1), Mul(effective_score, Rat(15, 100)))
    IN  Mul(current_stability, growth_factor)

\* a bug bound_stability could have: the upper bound applied, the lower one forgotten
bound_stability_no_floor(new_stability) == PyMin(MAX_STABILITY, new_stability)

\* max(MIN_STABILITY, min(MAX_STABILITY, new_stability))
bound_stability(new_stability) ==
    PyMax(MIN_STABILITY, PyMin(MAX_STABILITY, new_stability))

\* a bug update_stability could have: Again not special-cased
update_stability_no_again(current_stability, bs, w) ==
    bound_stability(grown_stability(current_stability, bs, w))

update_stability(current_stability, bs, w) ==
    LET new_stability == IF bs = 0 THEN again_stability(current_stability)
                         ELSE grown_stability(current_stability, bs, w)
    IN  bound_stability(new_stability)

---------------------------------------------------------------------------
(* srs_engine.py: update_difficulty *)

\* max(MIN_DIFFICULTY, min(MAX_DIFFICULTY, new_difficulty))
bound_difficulty(new_difficulty) ==
    PyMax(MIN_DIFFICULTY, PyMin(MAX_DIFFICULTY, new_difficulty))

\* a bug update_difficulty could have: Again special-cased as it is for stability
update_difficulty_again_special(current_difficulty, bs, w) ==
    IF bs = 0 THEN bound_difficulty(current_difficulty)
    ELSE bound_difficulty(Sub(current_difficulty,
             Mul(Sub(Mul(Num(bs), w), EXPECTED_SCORE), DIFFICULTY_RATE)))

\* a bug update_difficulty could have: the delta added, not subtracted
update_difficulty_added(current_difficulty, bs, w) ==
    bound_difficulty(Add(current_difficulty,
        Mul(Sub(Mul(Num(bs), w), EXPECTED_SCORE), DIFFICULTY_RATE)))

update_difficulty(current_difficulty, bs, w) ==
    LET effective_score  == Mul(Num(bs), w)
        difficulty_delta == Mul(Sub(effective_score, EXPECTED_SCORE), DIFFICULTY_RATE)
        new_difficulty   == Sub(current_difficulty, difficulty_delta)
    IN  bound_difficulty(new_difficulty)

---------------------------------------------------------------------------
(* srs_engine.py: calculate_next_review and process_review *)

\* "if current_time is None: current_time = datetime.now()"
time_or_now(t) == IF t = None THEN clock ELSE t

\* a bug interval_hours could have: the modifier's sign the other way round
interval_hours_inverted(stability, difficulty) ==
    Mul(stability, Sub(Num(1), Mul(Sub(difficulty, Num(5)), Rat(12, 100))))

\* stability * (1 + (difficulty - 5) * 0.12), in hours
interval_hours(stability, difficulty) ==
    LET difficulty_modifier == Add(Num(1), Mul(Sub(difficulty, Num(5)), Rat(12, 100)))
    IN  Mul(stability, difficulty_modifier)

\* a bug calculate_next_review could have: the interval floored at one hour
calculate_next_review_floored(stability, difficulty, t) ==
    dt_add(time_or_now(t),
           timedelta_hours(PyMax(Num(1), interval_hours(stability, difficulty))))

calculate_next_review(stability, difficulty, t) ==
    dt_add(time_or_now(t), timedelta_hours(interval_hours(stability, difficulty)))

\* dict.get(key, default)
Get(dict, key, default) == IF key \in DOMAIN dict THEN dict[key] ELSE default

\* a bug process_review could have: next_review projected from the values read,
\* not from the updated ones
process_review_stale(tp, bs, w, t) ==
    LET now == time_or_now(t)
    IN  [stability     |-> update_stability(Get(tp, "stability", Num(24)), bs, w),
         difficulty    |-> update_difficulty(Get(tp, "difficulty", Num(5)), bs, w),
         next_review   |-> calculate_next_review(Get(tp, "stability", Num(24)),
                                                 Get(tp, "difficulty", Num(5)), now),
         last_reviewed |-> now]

\* a bug process_review could have: current_time not passed on to
\* calculate_next_review, which then reads the clock
process_review_unpassed_time(tp, bs, w, t) ==
    LET new_stability  == update_stability(Get(tp, "stability", Num(24)), bs, w)
        new_difficulty == update_difficulty(Get(tp, "difficulty", Num(5)), bs, w)
    IN  [stability     |-> new_stability,
         difficulty    |-> new_difficulty,
         next_review   |-> calculate_next_review(new_stability, new_difficulty, None),
         last_reviewed |-> time_or_now(t)]

process_review(tp, bs, w, t) ==
    LET now               == time_or_now(t)
        current_stability  == Get(tp, "stability", Num(24))
        current_difficulty == Get(tp, "difficulty", Num(5))
        new_stability      == update_stability(current_stability, bs, w)
        new_difficulty     == update_difficulty(current_difficulty, bs, w)
        next_review        == calculate_next_review(new_stability, new_difficulty, now)
    IN  [stability     |-> new_stability,
         difficulty    |-> new_difficulty,
         next_review   |-> next_review,
         last_reviewed |-> now]

---------------------------------------------------------------------------
(* The engine called on its own: one call of one function on arguments     *)
(* inside and outside the documented ranges.                                *)

\* base_score arguments: -1 .. MaxScore
MaxScore == 4

\* intrinsic_weight arguments: k/2 for k in -1 .. MaxWeightHalves
MaxWeightHalves == 5

\* difficulty arguments: -1 .. MaxDifficultyInput
MaxDifficultyInput == 11

\* stability arguments: 1095 * k hours for k in 0 .. MaxStabilityStep (8760 = 1095 * 8)
MaxStabilityStep == 9

ScoreInputs == -1 .. MaxScore

WeightInputs == {Rat(k, 2) : k \in -1 .. MaxWeightHalves}

DifficultyInputs == {Num(k) : k \in -1 .. MaxDifficultyInput} \cup {Rat(97, 10)}

StabilityInputs ==
    {Num(1095 * k) : k \in 0 .. MaxStabilityStep}
        \cup {Num(-5), Num(1), Rat(24, 10), Num(24), Num(100), Num(20000)}

\* the topic dicts: rows with both fields, and a dict with neither
TopicInputs ==
    {[stability |-> s, difficulty |-> d] : s \in StabilityInputs, d \in DifficultyInputs}
        \cup {[name |-> Num(0)]}

\* current_time: not passed, or a time with microseconds
TimeInputs == {None, datetime(86400, 999999)}

EngineInit ==
    /\ pc = "start"
    /\ topic \in TopicInputs
    /\ base_score \in ScoreInputs
    /\ intrinsic_weight \in WeightInputs
    /\ current_time \in TimeInputs
    /\ clock = datetime(0, 0)
    /\ ret = None
    /\ topics = <<>>
    /\ draw = None
    /\ response = None
    /\ requests = <<>>

Call_update_stability ==
    /\ pc = "start"
    /\ "stability" \in DOMAIN topic
    /\ pc' = "update_stability"
    /\ ret' = update_stability(topic.stability, base_score, intrinsic_weight)
    /\ UNCHANGED <<engineArgs, clock, topics, draw, response, requests>>

Call_update_difficulty ==
    /\ pc = "start"
    /\ "difficulty" \in DOMAIN topic
    /\ pc' = "update_difficulty"
    /\ ret' = update_difficulty(topic.difficulty, base_score, intrinsic_weight)
    /\ UNCHANGED <<engineArgs, clock, topics, draw, response, requests>>

Call_calculate_next_review ==
    /\ pc = "start"
    /\ "stability" \in DOMAIN topic
    /\ pc' = "calculate_next_review"
    /\ ret' = calculate_next_review(topic.stability, topic.difficulty, current_time)
    /\ UNCHANGED <<engineArgs, clock, topics, draw, response, requests>>

Call_process_review ==
    /\ pc = "start"
    /\ pc' = "process_review"
    /\ ret' = process_review(topic, base_score, intrinsic_weight, current_time)
    /\ UNCHANGED <<engineArgs, clock, topics, draw, response, requests>>

EngineNext ==
    \/ Call_update_stability
    \/ Call_update_difficulty
    \/ Call_calculate_next_review
    \/ Call_process_review

EngineSpec == EngineInit /\ [][EngineNext]_vars

---------------------------------------------------------------------------
(* process_review called again on the same arguments, after time has passed *)

\* the hours that pass between the calls
MaxTicks == 1

\* datetime.now() moves on by an hour
Tick ==
    /\ clock.s < 3600 * MaxTicks
    /\ clock' = dt_add(clock, datetime(3600, 0))
    /\ UNCHANGED <<pc, engineArgs, ret, topics, draw, response, requests>>

Call_process_review_again ==
    /\ pc = "process_review"
    /\ ret' = process_review(topic, base_score, intrinsic_weight, current_time)
    /\ UNCHANGED <<pc, engineArgs, clock, topics, draw, response, requests>>

RepeatNext ==
    \/ Tick
    \/ Call_process_review
    \/ Call_process_review_again

RepeatSpec == EngineInit /\ [][RepeatNext]_vars

---------------------------------------------------------------------------
(* Properties of the engine's functions *)

Clamp(x, lo, hi) == IF Lt(x, lo) THEN lo ELSE IF Lt(hi, x) THEN hi ELSE x

WithinBounds(x, lo, hi) == Le(lo, x) /\ Le(x, hi)

HasRow(tp) == {"stability", "difficulty"} \subseteq DOMAIN tp

\* the datetime u lies exactly h hours (h a rational) after the datetime t
HoursAfter(t, u, h) ==
    LET borrow == u.us < t.us
        ds     == IF borrow THEN u.s - t.s - 1 ELSE u.s - t.s
        dus    == IF borrow THEN u.us - t.us + 1000000 ELSE u.us - t.us
        wh     == h.n \div h.d
        secs   == Mul(Rat(h.n % h.d, h.d), Num(3600))
    IN  /\ ds = wh * 3600 + (secs.n \div secs.d)
        /\ Rat(dus, 1000000) = Rat(secs.n % secs.d, secs.d)

\* C1: whatever the current value, base_score and intrinsic_weight are,
\* in range or not, update_stability returns a value in [2.4, 8760],
\* update_difficulty a value in [1, 10], and so does process_review for both.
C1_OutputsWithinBounds ==
    /\ pc = "update_stability" => WithinBounds(ret, Rat(24, 10), Num(8760))
    /\ pc = "update_difficulty" => WithinBounds(ret, Num(1), Num(10))
    /\ pc = "process_review" =>
           /\ WithinBounds(ret.stability, Rat(24, 10), Num(8760))
           /\ WithinBounds(ret.difficulty, Num(1), Num(10))

\* process_review on a stability below the range and a difficulty above it,
\* with a score and a weight outside theirs
C1_Witness ==
    /\ pc = "process_review"
    /\ HasRow(topic)
    /\ Lt(topic.stability, MIN_STABILITY)
    /\ Lt(MAX_DIFFICULTY, topic.difficulty)
    /\ base_score = -1
    /\ Lt(intrinsic_weight, Num(0))
    /\ ret.stability = MIN_STABILITY
    /\ ret.difficulty = MAX_DIFFICULTY

ValidReview ==
    /\ HasRow(topic)
    /\ WithinBounds(topic.stability, MIN_STABILITY, MAX_STABILITY)
    /\ WithinBounds(topic.difficulty, MIN_DIFFICULTY, MAX_DIFFICULTY)
    /\ base_score \in 0 .. 3
    /\ WithinBounds(intrinsic_weight, Rat(1, 2), Num(2))

\* C2: for a topic within bounds, a base_score in 0..3 and a weight in
\* [0.5, 2.0], process_review returns a next_review strictly later than now,
\* at least 1.248 hours (4492.8 seconds) later.
C2_NextReviewAfterNow ==
    (pc = "process_review" /\ ValidReview) =>
        /\ dt_lt(time_or_now(current_time), ret.next_review)
        /\ dt_le(dt_add(time_or_now(current_time), datetime(4492, 800000)),
                 ret.next_review)

\* Again on the easiest, least stable topic: stability stays 2.4, difficulty
\* becomes 1.6, the interval is 2.4 * 0.592 = 1.4208 hours
C2_Witness ==
    /\ pc = "process_review"
    /\ ValidReview
    /\ base_score = 0
    /\ topic.stability = MIN_STABILITY
    /\ topic.difficulty = MIN_DIFFICULTY
    /\ ret.next_review = dt_add(time_or_now(current_time), datetime(5114, 880000))

\* C3: process_review returns stability = update_stability(topic.stability, ..),
\* difficulty = update_difficulty(topic.difficulty, ..) from the original
\* difficulty, next_review projected from the two updated values, and
\* last_reviewed = now.
C3_ProcessReviewComposition ==
    (pc = "process_review" /\ HasRow(topic)) =>
        LET now == time_or_now(current_time)
            S   == update_stability(topic.stability, base_score, intrinsic_weight)
            D   == update_difficulty(topic.difficulty, base_score, intrinsic_weight)
        IN  /\ ret.stability = S
            /\ ret.difficulty = D
            /\ HoursAfter(now, ret.next_review,
                          Mul(S, Add(Num(1), Mul(Sub(D, Num(5)), Rat(12, 100)))))
            /\ ret.last_reviewed = now

\* a review that changes both values, so that the projection from the
\* original values differs from the one returned
C3_Witness ==
    /\ pc = "process_review"
    /\ HasRow(topic)
    /\ ret.stability # topic.stability
    /\ ret.difficulty # topic.difficulty
    /\ ret.next_review #
           calculate_next_review(topic.stability, topic.difficulty, current_time)
    /\ ret.last_reviewed = time_or_now(current_time)

\* C4: for base_score 0, update_stability(S, 0, w) is S * 0.5 raised to at
\* least 2.4 and capped at 8760, the same for every weight;
\* update_stability(100, 0, w) = 50 and update_stability(1, 0, 1) = 2.4.
C4_AgainHalvesStability ==
    (pc = "update_stability" /\ base_score = 0) =>
        /\ ret = Clamp(Mul(topic.stability, Rat(1, 2)), Rat(24, 10), Num(8760))
        /\ \A w \in WeightInputs : update_stability(topic.stability, 0, w) = ret
        /\ topic.stability = Num(100) => ret = Num(50)
        /\ topic.stability = Num(1) => ret = Rat(24, 10)

\* 100 hours, Again, a weight outside the documented range
C4_Witness ==
    /\ pc = "update_stability"
    /\ base_score = 0
    /\ topic.stability = Num(100)
    /\ intrinsic_weight = Rat(5, 2)
    /\ ret = Num(50)

\* C5: for base_score in 1..3, any stability S and any weight w,
\* update_stability(S, base_score, w) = clamp(S * (1 + base_score * w * 0.15),
\* 2.4, 8760).
C5_GrowthFormula ==
    (pc = "update_stability" /\ base_score \in 1 .. 3) =>
        ret = Clamp(Mul(topic.stability,
                        Add(Num(1), Mul(Mul(Num(base_score), intrinsic_weight),
                                        Rat(15, 100)))),
                    Rat(24, 10), Num(8760))

\* 24 hours, Easy, weight 2: 24 * (1 + 6 * 0.15) = 45.6
C5_Witness ==
    /\ pc = "update_stability"
    /\ base_score = 3
    /\ intrinsic_weight = Num(2)
    /\ topic.stability = Num(24)
    /\ ret = Rat(456, 10)

\* C6: for base_score in 0..3 (0 included), any difficulty D and any weight w,
\* update_difficulty(D, base_score, w) = clamp(D - (base_score * w - 2) * 0.3,
\* 1, 10); base_score 0 gives clamp(D + 0.6) whatever the weight;
\* update_difficulty(5, 2, 1) = 5 and update_difficulty(5, 3, 2) = 3.8.
C6_DifficultyFormula ==
    (pc = "update_difficulty" /\ base_score \in 0 .. 3) =>
        LET D == topic.difficulty
        IN  /\ ret = Clamp(Sub(D, Mul(Sub(Mul(Num(base_score), intrinsic_weight),
                                          Num(2)), Rat(3, 10))),
                           Num(1), Num(10))
            /\ base_score = 0 => ret = Clamp(Add(D, Rat(6, 10)), Num(1), Num(10))
            /\ (D = Num(5) /\ base_score = 2 /\ intrinsic_weight = Num(1))
                   => ret = Num(5)
            /\ (D = Num(5) /\ base_score = 3 /\ intrinsic_weight = Num(2))
                   => ret = Rat(38, 10)

\* Again on difficulty 5 with weight 2: 5.6
C6_Witness ==
    /\ pc = "update_difficulty"
    /\ base_score = 0
    /\ intrinsic_weight = Num(2)
    /\ topic.difficulty = Num(5)
    /\ ret = Rat(56, 10)

\* C7: calculate_next_review(S, D, T) is T + S * (1 + (D - 5) * 0.12) hours
\* for every S, D and T, with no floor and no cap on the interval;
\* calculate_next_review(24, 5, T) is T + 24 hours exactly.
C7_NextReviewFormula ==
    pc = "calculate_next_review" =>
        LET T == time_or_now(current_time)
        IN  /\ HoursAfter(T, ret,
                          Mul(topic.stability,
                              Add(Num(1), Mul(Sub(topic.difficulty, Num(5)),
                                              Rat(12, 100)))))
            /\ (topic.stability = Num(24) /\ topic.difficulty = Num(5))
                   => ret = datetime(T.s + 86400, T.us)

\* an interval shorter than an hour: 1 * (1 + (1 - 5) * 0.12) = 0.52 hours
C7_Witness ==
    /\ pc = "calculate_next_review"
    /\ topic.stability = Num(1)
    /\ topic.difficulty = Num(1)
    /\ ret = dt_add(time_or_now(current_time), datetime(1872, 0))

\* C12, as claimed: for a stability S > 0, a time T and difficulties D1 < D2 in
\* [1, 10], calculate_next_review(S, D2, T) is earlier than
\* calculate_next_review(S, D1, T): the higher difficulty has the shorter interval.
C12_HigherDifficultyShortensInterval ==
    (/\ pc = "calculate_next_review"
     /\ Lt(Num(0), topic.stability)
     /\ WithinBounds(topic.difficulty, MIN_DIFFICULTY, MAX_DIFFICULTY)) =>
        \A D1 \in DifficultyInputs :
            (WithinBounds(D1, MIN_DIFFICULTY, MAX_DIFFICULTY) /\ Lt(D1, topic.difficulty)) =>
                dt_lt(ret, calculate_next_review(topic.stability, D1, current_time))

\* C13, as claimed: for a stability S in [2.4, 8760], base_score 0 and any
\* weight, update_stability returns a value lower than S.
C13_AgainAlwaysShrinks ==
    (/\ pc = "update_stability"
     /\ base_score = 0
     /\ WithinBounds(topic.stability, MIN_STABILITY, MAX_STABILITY)) =>
        Lt(ret, topic.stability)

\* C13, amended: for a stability S in [2.4, 8760], base_score 0 and any weight,
\* update_stability never returns more than S; it returns less than S when
\* S > 2.4, and 2.4 when S = 2.4 (the floor: no shrinking there).
C13_AgainShrinksAboveMinimum ==
    (/\ pc = "update_stability"
     /\ base_score = 0
     /\ WithinBounds(topic.stability, MIN_STABILITY, MAX_STABILITY)) =>
        /\ Le(ret, topic.stability)
        /\ Lt(MIN_STABILITY, topic.stability) => Lt(ret, topic.stability)
        /\ topic.stability = MIN_STABILITY => ret = topic.stability

\* Again at the floor, with the heaviest card: stability stays 2.4
C13_Witness ==
    /\ pc = "update_stability"
    /\ base_score = 0
    /\ intrinsic_weight = Num(2)
    /\ topic.stability = MIN_STABILITY
    /\ ret = MIN_STABILITY

---------------------------------------------------------------------------
(* srs_engine.py: sample_card *)

\* what a call does: return a value, or raise an exception
Return(v) == [raised |-> "", value |-> v]

Raise(e) == [raised |-> e, value |-> None]

\* a bug card_weights could have: a card with no weight field weighted 0
card_weights_default_zero(cards) ==
    [i \in 1 .. Len(cards) |-> Get(cards[i], "intrinsic_weight", Num(0))]

\* [card.get('intrinsic_weight', 1.0) for card in cards]
card_weights(cards) ==
    [i \in 1 .. Len(cards) |-> Get(cards[i], "intrinsic_weight", Num(1))]

\* list(itertools.accumulate(weights))
RECURSIVE accumulate(_)
accumulate(ws) ==
    IF Len(ws) = 0 THEN <<>>
    ELSE LET front == accumulate(SubSeq(ws, 1, Len(ws) - 1))
         IN  Append(front, IF Len(front) = 0 THEN ws[Len(ws)]
                           ELSE Add(front[Len(front)], ws[Len(ws)]))

\* a bug bisect could have: bisect_left, which stops at an element equal to x
RECURSIVE bisect_left(_, _, _, _)
bisect_left(a, x, lo, hi) ==
    IF lo < hi
    THEN LET mid == (lo + hi) \div 2
         IN  IF Lt(a[mid + 1], x) THEN bisect_left(a, x, mid + 1, hi)
             ELSE bisect_left(a, x, lo, mid)
    ELSE lo

\* bisect.bisect(a, x, lo, hi) on the 0-based list a (a[mid] is a[mid + 1] here)
RECURSIVE bisect(_, _, _, _)
bisect(a, x, lo, hi) ==
    IF lo < hi
    THEN LET mid == (lo + hi) \div 2
         IN  IF Lt(x, a[mid + 1]) THEN bisect(a, x, lo, mid)
             ELSE bisect(a, x, mid + 1, hi)
    ELSE lo

\* random.choices(population, weights=weights, k=1)[0], where random() returns u:
\* the 0-based index it selects, or the ValueError of a total weight <= 0
choices_index(weights, u) ==
    LET cum_weights == accumulate(weights)
        total       == cum_weights[Len(cum_weights)]
        hi          == Len(weights) - 1
    IN  IF Le(total, Num(0)) THEN Raise("ValueError")
        ELSE Return(bisect(cum_weights, Mul(u, total), 0, hi))

\* a bug sample_card could have: no check for an empty list, so that
\* random.choices indexes cum_weights[-1] of an empty list
sample_card_unchecked(cards, u) ==
    IF Len(cards) = 0 THEN Raise("IndexError")
    ELSE LET selected == choices_index(card_weights(cards), u)
         IN  IF selected.raised # "" THEN selected
             ELSE Return(cards[selected.value + 1])

\* a bug sample_card could have: a copy of the selected card, its weight
\* filled in, returned in place of the card
sample_card_copy(cards, u) ==
    IF Len(cards) = 0 THEN Return(None)
    ELSE LET selected == choices_index(card_weights(cards), u)
             card     == cards[selected.value + 1]
         IN  IF selected.raised # "" THEN selected
             ELSE Return([card_type        |-> card.card_type,
                          intrinsic_weight |-> Get(card, "intrinsic_weight", Num(1)),
                          card_data        |-> card.card_data])

sample_card(cards, u) ==
    IF Len(cards) = 0 THEN Return(None)
    ELSE LET selected == choices_index(card_weights(cards), u)
         IN  IF selected.raised # "" THEN selected
             ELSE Return(cards[selected.value + 1])

---------------------------------------------------------------------------
(* The values random.random() can return, as far as the model tells them    *)
(* apart: an even grid over [0, 1) on which every cumulative weight of the  *)
(* card list falls.                                                         *)

\* grid points per step between two possible cumulative weights
DrawsPerStep == 1

\* the least common denominator of the first i numbers of the list
RECURSIVE CommonDenominator(_, _)
CommonDenominator(list, i) ==
    IF i = 0 THEN 1
    ELSE LET c == CommonDenominator(list, i - 1)
         IN  (c \div GCD(c, list[i].d)) * list[i].d

\* u = k/N for k in 0 .. N-1, where u * total runs over the multiples below
\* total of 1/(DrawsPerStep * the common denominator)
RandomInputs(cards) ==
    LET cum   == accumulate(card_weights(cards))
        total == IF Len(cum) = 0 THEN Num(0) ELSE cum[Len(cum)]
        N     == Mul(total, Num(CommonDenominator(cum, Len(cum)) * DrawsPerStep)).n
    IN  IF N <= 0 THEN {Num(0)} ELSE {Rat(k, N) : k \in 0 .. N - 1}

---------------------------------------------------------------------------
(* routers/review.py: what the endpoints read and write *)

\* datetime.isoformat(): the microseconds are written only when they are not 0
isoformat(t) == [seconds |-> t.s, fraction |-> IF t.us = 0 THEN <<>> ELSE <<t.us>>]

\* the timestamp the database reads from an ISO 8601 string
timestamp(iso) ==
    datetime(iso.seconds, IF Len(iso.fraction) = 0 THEN 0 ELSE iso.fraction[1])

\* a value of column "cards": the array itself, or the JSON text of the array
\* (what json.dumps(cards) stores)
json_dumps(list) == [str |-> TRUE, list |-> list]

json_loads(text) == [str |-> FALSE, list |-> text.list]

\* cards = topic.get('cards', []); if isinstance(cards, str): cards = json.loads(cards)
parsed_cards(row) ==
    LET cards == Get(row, "cards", [str |-> FALSE, list |-> <<>>])
    IN  IF cards.str THEN json_loads(cards).list ELSE cards.list

\* list.index(x): the 0-based position of the first element equal to x
list_index(list, x) ==
    (CHOOSE i \in 1 .. Len(list) :
        list[i] = x /\ \A j \in 1 .. (i - 1) : list[j] # x) - 1

\* the rows of table "decks" (deck 3 of DeckRequests has no row)
Decks == {1, 2}

DeckRequests == {1, 2, 3}

\* .limit(100) of the due query, all_topics[:100] of the practice endpoint
TopicLimit == 100

HTTPException(op, status, deck_id) ==
    [op |-> op, status |-> status, deck_id |-> deck_id, cards |-> <<>>, total_due |-> 0]

DeckReviewResponse(op, cards, total_due, deck_id) ==
    [op |-> op, status |-> 200, deck_id |-> deck_id, cards |-> cards,
     total_due |-> total_due]

\* the body of "for topic in due_topics" (and of "for topic in selected_topics"):
\* None when the topic is skipped, the ReviewCardItem of the sampled card, or
\* the exception raised
topic_card_item(row, u) ==
    LET cards   == parsed_cards(row)
        sampled == sample_card(cards, u)
    IN  IF Len(cards) = 0 THEN Return(None)
        ELSE IF sampled.raised # "" THEN Raise(sampled.raised)
        ELSE IF sampled.value = None THEN Return(None)
        ELSE IF "intrinsic_weight" \notin DOMAIN sampled.value THEN Raise("KeyError")
        ELSE Return([card_index       |-> list_index(cards, sampled.value),
                     topic_id         |-> row.id,
                     card_type        |-> sampled.value.card_type,
                     intrinsic_weight |-> sampled.value.intrinsic_weight,
                     card_data        |-> sampled.value.card_data])

\* the loop over the topics order[i], order[i + 1], ..: every list of items it
\* can build, and every exception it can end with, over the values random()
\* can return to each sample_card call
RECURSIVE sampled_items(_, _)
sampled_items(order, i) ==
    IF i > Len(order) THEN {Return(<<>>)}
    ELSE LET row == topics[order[i]]
         IN  {IF item.raised # "" THEN item
              ELSE IF rest.raised # "" THEN rest
              ELSE IF item.value = None THEN rest
              ELSE Return(<<item.value>> \o rest.value) :
                  item \in {topic_card_item(row, u) : u \in RandomInputs(parsed_cards(row))},
                  rest \in sampled_items(order, i + 1)}

\* the orders in which a query can return the rows `ids`
Orders(ids) ==
    {o \in [1 .. Cardinality(ids) -> ids] :
        \A i, j \in 1 .. Cardinality(ids) : i # j => o[i] # o[j]}

\* .order("next_review", desc=False)
ByNextReview(o) ==
    \A i \in 1 .. (Len(o) - 1) :
        dt_le(topics[o[i]].next_review, topics[o[i + 1]].next_review)

Limit(o, n) == IF Len(o) > n THEN SubSeq(o, 1, n) ELSE o

\* a bug the due query could have: .gte in the place of .lte, which selects
\* the topics whose next_review is still to come
due_topics_gte(deck_id, now) ==
    {t \in DOMAIN topics :
        /\ topics[t].deck_id = deck_id
        /\ dt_le(timestamp(now), topics[t].next_review)}

\* .eq("deck_id", deck_id).lte("next_review", now)
due_topics(deck_id, now) ==
    {t \in DOMAIN topics :
        /\ topics[t].deck_id = deck_id
        /\ dt_le(topics[t].next_review, timestamp(now))}

\* GET /review/decks/{deck_id}/cards
get_deck_review_cards(deck_id) ==
    /\ IF deck_id \notin Decks
       THEN response' = HTTPException("get_deck_review_cards", 404, deck_id)
       ELSE LET now == isoformat(clock)
                due == due_topics(deck_id, now)
            IN  IF due = {}
                THEN response' = DeckReviewResponse("get_deck_review_cards", <<>>, 0, deck_id)
                ELSE \E o \in {x \in Orders(due) : ByNextReview(x)} :
                     \E items \in sampled_items(Limit(o, TopicLimit), 1) :
                        response' =
                            IF items.raised # ""
                            THEN HTTPException("get_deck_review_cards", 500, deck_id)
                            ELSE DeckReviewResponse("get_deck_review_cards", items.value,
                                     Len(Limit(o, TopicLimit)), deck_id)
    /\ UNCHANGED <<pc, engineArgs, clock, ret, topics, draw, requests>>

\* a bug get_deck_practice_cards could have: the topics of the deck marked as
\* reviewed when their cards are handed out
get_deck_practice_cards_marking(deck_id) ==
    /\ response' = IF deck_id \notin Decks
                   THEN HTTPException("get_deck_practice_cards", 404, deck_id)
                   ELSE DeckReviewResponse("get_deck_practice_cards", <<>>, 0, deck_id)
    /\ topics' = [t \in DOMAIN topics |->
                     IF topics[t].deck_id = deck_id
                     THEN [topics[t] EXCEPT !.last_reviewed = clock]
                     ELSE topics[t]]
    /\ UNCHANGED <<pc, engineArgs, clock, ret, draw, requests>>

\* GET /review/decks/{deck_id}/practice
get_deck_practice_cards(deck_id) ==
    /\ IF deck_id \notin Decks
       THEN response' = HTTPException("get_deck_practice_cards", 404, deck_id)
       ELSE LET all_topics == {t \in DOMAIN topics : topics[t].deck_id = deck_id}
            IN  IF all_topics = {}
                THEN response' = DeckReviewResponse("get_deck_practice_cards", <<>>, 0, deck_id)
                ELSE \E o \in Orders(all_topics) :
                     \E items \in sampled_items(Limit(o, TopicLimit), 1) :
                        response' =
                            IF items.raised # ""
                            THEN HTTPException("get_deck_practice_cards", 500, deck_id)
                            ELSE DeckReviewResponse("get_deck_practice_cards", items.value,
                                     Len(items.value), deck_id)
    /\ UNCHANGED <<pc, engineArgs, clock, ret, topics, draw, requests>>

---------------------------------------------------------------------------
(* The sampler and the two endpoints that call it, on stored topics of     *)
(* every shape: topic 1 holds any list of up to MaxCards cards.            *)

\* the longest cards array of topic 1
MaxCards == 3

Card(w, data) == [card_type |-> "qa_hint", intrinsic_weight |-> w, card_data |-> data]

\* cards of weight 0.5, 1 and 3, cards of weight 0 and -1, and a card with no
\* intrinsic_weight field; a list may hold the same card more than once
CardInputs ==
    {Card(w, "q1") : w \in {Rat(1, 2), Num(1), Num(3), Num(0), Num(-1)}}
        \cup {[card_type |-> "qa_hint", card_data |-> "q1"]}

CardListInputs == UNION {[1 .. n -> CardInputs] : n \in 0 .. MaxCards}

Row(id, deck_id, next_review, cards) ==
    [id |-> id, deck_id |-> deck_id, name |-> "topic",
     stability |-> Num(24), difficulty |-> Num(5),
     next_review |-> next_review, last_reviewed |-> None, cards |-> cards]

SamplerInit ==
    /\ pc = "start"
    /\ topic = [name |-> Num(0)]
    /\ base_score = 0
    /\ intrinsic_weight = Num(1)
    /\ current_time = None
    /\ clock = datetime(86400, 0)
    /\ ret = None
    /\ draw = None
    /\ response = None
    /\ requests = <<>>
    /\ \E cards1 \in CardListInputs, late1 \in BOOLEAN,
          cards2 \in {json_dumps(<<>>), json_dumps(<<Card(Num(2), "q3")>>)} :
          topics = <<Row(1, 1, IF late1 THEN datetime(86400, 1) ELSE datetime(3600, 0),
                         [str |-> FALSE, list |-> cards1]),
                     Row(2, 1, datetime(86400, 0), cards2),
                     Row(3, 2, datetime(90000, 0), json_dumps(<<Card(Num(1), "q4")>>))>>

\* sample_card(cards) on the cards of topic 1, any number of times
Call_sample_card ==
    /\ response = None
    /\ \E u \in RandomInputs(parsed_cards(topics[1])) :
          /\ draw' = u
          /\ ret' = sample_card(parsed_cards(topics[1]), u)
    /\ pc' = "sample_card"
    /\ UNCHANGED <<engineArgs, clock, topics, response, requests>>

\* one request to an endpoint, on the stored topics as they are
Request_get_deck_review_cards ==
    /\ pc = "start" /\ response = None
    /\ \E deck_id \in DeckRequests : get_deck_review_cards(deck_id)

Request_get_deck_practice_cards ==
    /\ pc = "start" /\ response = None
    /\ \E deck_id \in DeckRequests : get_deck_practice_cards(deck_id)

SamplerNext ==
    \/ Call_sample_card
    \/ Request_get_deck_review_cards
    \/ Request_get_deck_practice_cards

SamplerSpec == SamplerInit /\ [][SamplerNext]_vars

---------------------------------------------------------------------------
(* Properties of sample_card and of the endpoints that call it *)

\* the cards sample_card was called on
SampledCards == parsed_cards(topics[1])

WeightOf(card) == IF "intrinsic_weight" \in DOMAIN card THEN card.intrinsic_weight ELSE Num(1)

\* the weight of the first i cards
RECURSIVE WeightUpTo(_, _)
WeightUpTo(cards, i) ==
    IF i = 0 THEN Num(0) ELSE Add(WeightUpTo(cards, i - 1), WeightOf(cards[i]))

PositiveWeights(cards) ==
    /\ Len(cards) > 0
    /\ \A i \in 1 .. Len(cards) : Lt(Num(0), WeightOf(cards[i]))

\* how many of the values random() can return make sample_card select position i
DrawsSelecting(cards, i) ==
    Cardinality({u \in RandomInputs(cards) :
                    choices_index(card_weights(cards), u) = Return(i - 1)})

\* C8: on a non-empty list of cards with positive weights, whatever random()
\* returns, sample_card returns one card, and that card is an element of the list.
C8_SampledCardIsMember ==
    (pc = "sample_card" /\ PositiveWeights(SampledCards)) =>
        /\ ret.raised = ""
        /\ \E i \in 1 .. Len(SampledCards) : ret.value = SampledCards[i]

\* the third of three different cards is returned
C8_Witness ==
    /\ pc = "sample_card"
    /\ PositiveWeights(SampledCards)
    /\ Len(SampledCards) = 3
    /\ SampledCards[3] \notin {SampledCards[1], SampledCards[2]}
    /\ ret = Return(SampledCards[3])

\* the topics a request to `op` for deck_id reads
ScannedTopics(op, deck_id) ==
    IF op = "get_deck_review_cards"
    THEN {t \in DOMAIN topics :
             topics[t].deck_id = deck_id /\ dt_le(topics[t].next_review, clock)}
    ELSE {t \in DOMAIN topics : topics[t].deck_id = deck_id}

\* every card of the topic has a weight field, and a positive weight
SoundCards(t) ==
    \A i \in 1 .. Len(parsed_cards(topics[t])) :
        /\ "intrinsic_weight" \in DOMAIN parsed_cards(topics[t])[i]
        /\ Lt(Num(0), parsed_cards(topics[t])[i].intrinsic_weight)

\* C9: sample_card on an empty list returns None and raises nothing; a request
\* to get_deck_review_cards or get_deck_practice_cards skips the topics it
\* reads that have no cards: it answers 200 with one card for each topic that
\* has cards, and a topic without cards never makes it fail.
C9_EmptyCardsHandled ==
    /\ (pc = "sample_card" /\ Len(SampledCards) = 0) => ret = [raised |-> "", value |-> None]
    /\ (response # None /\ response.deck_id \in Decks) =>
           LET scanned == ScannedTopics(response.op, response.deck_id)
               filled  == {t \in scanned : Len(parsed_cards(topics[t])) > 0}
           IN  /\ (\A t \in filled : SoundCards(t)) => response.status = 200
               /\ response.status = 200 =>
                      /\ Len(response.cards) = Cardinality(filled)
                      /\ {response.cards[i].topic_id : i \in 1 .. Len(response.cards)}
                             = filled
                      /\ response.op = "get_deck_review_cards" =>
                             response.total_due = Cardinality(scanned)

\* two topics are due, the one without cards is skipped and the other one's
\* card is returned
C9_Witness ==
    /\ response # None
    /\ response.op = "get_deck_review_cards"
    /\ response.status = 200
    /\ response.total_due = 2
    /\ Len(parsed_cards(topics[1])) = 0
    /\ Len(response.cards) = 1
    /\ response.cards[1].topic_id = 2

\* C10: on a non-empty list with positive weights and a draw r = random() * total
\* in [0, total), sample_card selects the first card, in list order, whose
\* cumulative weight exceeds r; so the share of the draws that select card i is
\* weight_i / total (for weights 1 and 3, three times as many draws select the
\* second card), and this holds of every call, whatever the calls before it
\* returned.
C10_FirstCumulativeWeightAboveDraw ==
    (pc = "sample_card" /\ PositiveWeights(SampledCards)) =>
        LET cards == SampledCards
            n     == Len(cards)
            total == WeightUpTo(cards, n)
            r     == Mul(draw, total)
            first == CHOOSE i \in 1 .. n :
                        /\ Lt(r, WeightUpTo(cards, i))
                        /\ \A j \in 1 .. (i - 1) : ~Lt(r, WeightUpTo(cards, j))
        IN  /\ Le(Num(0), r) /\ Lt(r, total)
            /\ ret = Return(cards[first])
            /\ \A i \in 1 .. n :
                   Mul(Num(DrawsSelecting(cards, i)), total)
                       = Mul(WeightOf(cards[i]), Num(Cardinality(RandomInputs(cards))))
            /\ (n = 2 /\ WeightOf(cards[1]) = Num(1) /\ WeightOf(cards[2]) = Num(3))
                   => DrawsSelecting(cards, 2) = 3 * DrawsSelecting(cards, 1)

\* weights 1 and 3, the draw is exactly the first cumulative weight, and the
\* call before this one had returned the first card
C10_Witness ==
    /\ pc = "sample_card"
    /\ Len(SampledCards) = 2
    /\ WeightOf(SampledCards[1]) = Num(1)
    /\ WeightOf(SampledCards[2]) = Num(3)
    /\ draw = Rat(1, 4)
    /\ ret = Return(SampledCards[2])

HasUnweighted(cards) ==
    \E i \in 1 .. Len(cards) : "intrinsic_weight" \notin DOMAIN cards[i]

\* the same list with every missing weight written out as 1.0
WithDefaultWeights(cards) ==
    [i \in 1 .. Len(cards) |->
        IF "intrinsic_weight" \in DOMAIN cards[i] THEN cards[i]
        ELSE [card_type        |-> cards[i].card_type,
              intrinsic_weight |-> Num(1),
              card_data        |-> cards[i].card_data]]

\* C11: on a list that holds a card with no intrinsic_weight field, sample_card
\* does what it does on the same list with that weight written out as 1.0: it
\* raises nothing when the weights are positive, it selects the same position
\* for the same draw, and the card without a weight is selected by as many of
\* the draws as a card of weight 1.0 in its place (the counts are those of the
\* list, so they are compared once for each list, at draw 0).
C11_MissingWeightCountsAsOne ==
    (pc = "sample_card" /\ HasUnweighted(SampledCards)) =>
        LET cards  == SampledCards
            filled == WithDefaultWeights(cards)
            same   == sample_card(filled, draw)
        IN  /\ PositiveWeights(cards) => ret.raised = ""
            /\ ret.raised = same.raised
            /\ ret.raised = "" =>
                   \E i \in 1 .. Len(cards) :
                       ret.value = cards[i] /\ same.value = filled[i]
            /\ draw = Num(0) =>
                   /\ RandomInputs(cards) = RandomInputs(filled)
                   /\ \A i \in 1 .. Len(cards) :
                          "intrinsic_weight" \notin DOMAIN cards[i] =>
                              DrawsSelecting(cards, i) = DrawsSelecting(filled, i)

\* a card without a weight before a card of weight 3: the first quarter of the
\* draws selects it
C11_Witness ==
    /\ pc = "sample_card"
    /\ Len(SampledCards) = 2
    /\ "intrinsic_weight" \notin DOMAIN SampledCards[1]
    /\ SampledCards[2] = Card(Num(3), "q1")
    /\ draw = Num(0)
    /\ DrawsSelecting(SampledCards, 1) = 1
    /\ Cardinality(RandomInputs(SampledCards)) = 4
    /\ ret = Return(SampledCards[1])

---------------------------------------------------------------------------
(* routers/review.py, routers/topics.py: the requests that write.  Each is  *)
(* entered in `requests` when it arrives.  submit_card_review takes two     *)
(* steps, its select and its update, which are two calls to the database    *)
(* with nothing that ties them together: requests of other clients and of   *)
(* other workers can be served in between.  The card requests are one step. *)

\* "if len(cards) >= 25" (topics.py), max_length=25 (schemas.py)
CardLimit == 25

\* a bug ReviewSubmission could have: le=3 left out
ReviewSubmission_valid_no_upper(bs) == bs >= 0

\* ReviewSubmission: base_score: int = Field(..., ge=0, le=3)
ReviewSubmission_valid(bs) == bs \in 0 .. 3

\* CardCreate, CardUpdate: intrinsic_weight: Field(ge=0.5, le=2.0)
intrinsic_weight_valid(w) == Le(Rat(1, 2), w) /\ Le(w, Num(2))

\* a bug CardItem could have: no bounds on intrinsic_weight
CardItem_valid_unbounded(card) == TRUE

\* CardItem, CardCreate: intrinsic_weight: float = Field(default=1.0, ge=0.5, le=2.0)
CardItem_valid(card) ==
    "intrinsic_weight" \in DOMAIN card => intrinsic_weight_valid(card.intrinsic_weight)

\* card.model_dump() of a CardItem: the weight written out, 1.0 when none was given
model_dump(card) ==
    [card_type        |-> card.card_type,
     intrinsic_weight |-> Get(card, "intrinsic_weight", Num(1)),
     card_data        |-> card.card_data]

\* TopicCreate: stability gt=0, difficulty ge=1 le=10, at most 25 cards, each
\* a CardItem
TopicCreate_valid(tc) ==
    /\ Lt(Num(0), tc.stability)
    /\ Le(Num(1), tc.difficulty) /\ Le(tc.difficulty, Num(10))
    /\ Len(tc.cards) <= CardLimit
    /\ \A i \in 1 .. Len(tc.cards) : CardItem_valid(tc.cards[i])

\* the row create_topic inserts at time now
inserted_topic(id, tc, now) ==
    [id            |-> id,
     deck_id       |-> tc.deck_id,
     name          |-> tc.name,
     stability     |-> tc.stability,
     difficulty    |-> tc.difficulty,
     next_review   |-> timestamp(isoformat(now)),
     last_reviewed |-> None,
     cards         |-> json_dumps([i \in 1 .. Len(tc.cards) |-> model_dump(tc.cards[i])])]

\* a request as it arrives
Arrived(op, topic_id, index, bs) ==
    [op |-> op, topic_id |-> topic_id, index |-> index, base_score |-> bs,
     pc |-> "select", status |-> 0,
     topic |-> None, intrinsic_weight |-> None, updates |-> None]

\* the request answered with an HTTP status
Responded(q, status) == [q EXCEPT !.pc = "done", !.status = status]

\* a bug submit_card_review could have: a topic that is not due yet is refused
submit_card_review_select_due_only(topic_id, index, bs) ==
    LET q == Arrived("submit_card_review", topic_id, index, bs)
    IN  IF ~ReviewSubmission_valid(bs) THEN Responded(q, 422)
        ELSE IF topic_id \notin DOMAIN topics THEN Responded(q, 404)
        ELSE LET tp    == topics[topic_id]
                 cards == parsed_cards(tp)
             IN  IF index < 0 \/ index >= Len(cards) THEN Responded(q, 404)
                 ELSE IF dt_lt(clock, tp.next_review) THEN Responded(q, 400)
                 ELSE [q EXCEPT !.pc = "update",
                                !.topic = tp,
                                !.intrinsic_weight =
                                    Get(cards[index + 1], "intrinsic_weight", Num(1)),
                                !.updates =
                                    process_review(tp, bs,
                                        Get(cards[index + 1], "intrinsic_weight", Num(1)),
                                        None)]

\* a bug submit_card_review could have: "index < 0" left out of the check, so
\* that a negative index counts from the end of the list, as Python's does
submit_card_review_select_no_negative_check(topic_id, index, bs) ==
    LET q == Arrived("submit_card_review", topic_id, index, bs)
    IN  IF ~ReviewSubmission_valid(bs) THEN Responded(q, 422)
        ELSE IF topic_id \notin DOMAIN topics THEN Responded(q, 404)
        ELSE LET tp    == topics[topic_id]
                 cards == parsed_cards(tp)
                 at    == IF index < 0 THEN Len(cards) + index + 1 ELSE index + 1
             IN  IF index >= Len(cards) THEN Responded(q, 404)
                 ELSE IF at < 1 THEN Responded(q, 500)
                 ELSE [q EXCEPT !.pc = "update",
                                !.topic = tp,
                                !.intrinsic_weight =
                                    Get(cards[at], "intrinsic_weight", Num(1)),
                                !.updates =
                                    process_review(tp, bs,
                                        Get(cards[at], "intrinsic_weight", Num(1)),
                                        None)]

\* submit_card_review from the validation of its body to process_review: the
\* request answered 422 or 404, or with its local values topic,
\* intrinsic_weight and updates, about to update the row
submit_card_review_select(topic_id, index, bs) ==
    LET q == Arrived("submit_card_review", topic_id, index, bs)
    IN  IF ~ReviewSubmission_valid(bs) THEN Responded(q, 422)
        ELSE IF topic_id \notin DOMAIN topics THEN Responded(q, 404)
        ELSE LET tp    == topics[topic_id]
                 cards == parsed_cards(tp)
             IN  IF index < 0 \/ index >= Len(cards) THEN Responded(q, 404)
                 ELSE LET card == cards[index + 1]
                          w    == Get(card, "intrinsic_weight", Num(1))
                      IN  [q EXCEPT !.pc = "update",
                                    !.topic = tp,
                                    !.intrinsic_weight = w,
                                    !.updates = process_review(tp, bs, w, None)]

\* POST /review/topics/{topic_id}/cards/{index}/submit, first step
submit_card_review(topic_id, index, bs) ==
    /\ requests' = Append(requests, submit_card_review_select(topic_id, index, bs))
    /\ UNCHANGED <<pc, engineArgs, clock, ret, topics, draw, response>>

\* db_updates: the datetimes of updates as ISO strings
db_updates(updates) ==
    [stability     |-> updates.stability,
     difficulty    |-> updates.difficulty,
     next_review   |-> isoformat(updates.next_review),
     last_reviewed |-> isoformat(updates.last_reviewed)]

\* a bug the update could have: the row written back whole, with the cards
\* as the handler parsed them
updated_topic_whole_row(tp, updates) ==
    [tp EXCEPT !.stability     = updates.stability,
               !.difficulty    = updates.difficulty,
               !.next_review   = timestamp(isoformat(updates.next_review)),
               !.last_reviewed = timestamp(isoformat(updates.last_reviewed)),
               !.cards         = [str |-> FALSE, list |-> parsed_cards(tp)]]

\* the row after db.table("topics").update(db_updates)
updated_topic(tp, updates) ==
    LET u == db_updates(updates)
    IN  [tp EXCEPT !.stability     = u.stability,
                   !.difficulty    = u.difficulty,
                   !.next_review   = timestamp(u.next_review),
                   !.last_reviewed = timestamp(u.last_reviewed)]

\* submit_card_review, second step: the update of the row and the response
submit_card_review_update(r) ==
    /\ requests[r].op = "submit_card_review"
    /\ requests[r].pc = "update"
    /\ LET q == requests[r]
       IN  IF q.topic_id \notin DOMAIN topics
           THEN /\ requests' = [requests EXCEPT ![r] = Responded(q, 500)]
                /\ UNCHANGED topics
           ELSE /\ topics' = [topics EXCEPT
                                 ![q.topic_id] = updated_topic(@, q.updates)]
                /\ requests' = [requests EXCEPT ![r] = Responded(q, 200)]
    /\ UNCHANGED <<pc, engineArgs, clock, ret, draw, response>>

\* the table after update({"cards": json.dumps(cards)}).eq("id", topic_id)
cards_updated(topic_id, cards) ==
    [topics EXCEPT ![topic_id] = [@ EXCEPT !.cards = json_dumps(cards)]]

\* POST /topics/{topic_id}/cards
add_card_to_topic(topic_id, card) ==
    LET q == Arrived("add_card_to_topic", topic_id, 0, 0)
    IN  /\ IF ~intrinsic_weight_valid(card.intrinsic_weight)
           THEN requests' = Append(requests, Responded(q, 422)) /\ UNCHANGED topics
           ELSE IF topic_id \notin DOMAIN topics
           THEN requests' = Append(requests, Responded(q, 404)) /\ UNCHANGED topics
           ELSE IF Len(parsed_cards(topics[topic_id])) >= CardLimit
           THEN requests' = Append(requests, Responded(q, 400)) /\ UNCHANGED topics
           ELSE /\ topics' = cards_updated(topic_id,
                                 Append(parsed_cards(topics[topic_id]), card))
                /\ requests' = Append(requests, Responded(q, 201))
        /\ UNCHANGED <<pc, engineArgs, clock, ret, draw, response>>

\* card['intrinsic_weight'] = card_update.intrinsic_weight
with_weight(card, w) ==
    [k \in DOMAIN card \cup {"intrinsic_weight"} |->
        IF k = "intrinsic_weight" THEN w ELSE card[k]]

\* PATCH /topics/{topic_id}/cards/{index}, for a CardUpdate that gives the
\* weight w (None: no weight given) and none of the text fields
update_card_in_topic(topic_id, index, w) ==
    LET q == Arrived("update_card_in_topic", topic_id, index, 0)
    IN  /\ IF w # None /\ ~intrinsic_weight_valid(w)
           THEN requests' = Append(requests, Responded(q, 422)) /\ UNCHANGED topics
           ELSE IF topic_id \notin DOMAIN topics
           THEN requests' = Append(requests, Responded(q, 404)) /\ UNCHANGED topics
           ELSE LET cards == parsed_cards(topics[topic_id])
                IN  IF index < 0 \/ index >= Len(cards)
                    THEN requests' = Append(requests, Responded(q, 404))
                         /\ UNCHANGED topics
                    ELSE /\ topics' = cards_updated(topic_id,
                                [cards EXCEPT ![index + 1] =
                                    IF w # None THEN with_weight(@, w) ELSE @])
                         /\ requests' = Append(requests, Responded(q, 200))
        /\ UNCHANGED <<pc, engineArgs, clock, ret, draw, response>>

\* cards.pop(index), for 0 <= index < len(cards)
list_pop(list, index) ==
    SubSeq(list, 1, index) \o SubSeq(list, index + 2, Len(list))

\* DELETE /topics/{topic_id}/cards/{index}
delete_card_from_topic(topic_id, index) ==
    LET q == Arrived("delete_card_from_topic", topic_id, index, 0)
    IN  /\ IF topic_id \notin DOMAIN topics
           THEN requests' = Append(requests, Responded(q, 404)) /\ UNCHANGED topics
           ELSE LET cards == parsed_cards(topics[topic_id])
                IN  IF index < 0 \/ index >= Len(cards)
                    THEN requests' = Append(requests, Responded(q, 404))
                         /\ UNCHANGED topics
                    ELSE /\ topics' = cards_updated(topic_id, list_pop(cards, index))
                         /\ requests' = Append(requests, Responded(q, 204))
        /\ UNCHANGED <<pc, engineArgs, clock, ret, draw, response>>

---------------------------------------------------------------------------
(* The service: two stored topics, and clients that fetch cards, edit the   *)
(* cards of topic 1 and submit reviews, in any order and interleaving, up   *)
(* to MaxRequests requests that write, all within one reading of the clock. *)

\* the requests that write, in one run
MaxRequests == 2

\* the cards topic 1 is created with: weights 0.5, 2.0 and 1.0
ServiceCards == <<Card(Rat(1, 2), "q1"), Card(Num(2), "q2"), Card(Num(1), "q3")>>

\* bodies of POST /topics for topic 1, valid and not
TopicCreateInputs ==
    {[deck_id |-> 1, name |-> "topic", stability |-> s, difficulty |-> d,
      cards |-> ServiceCards] :
        s \in {Num(0), Num(1), Num(24), Num(8000), Num(20000)},
        d \in {Num(5), Num(11)}}

\* topic 1 as create_topic stored it, and topic 2 with the default values
ServiceInit ==
    /\ pc = "start"
    /\ topic = [name |-> Num(0)]
    /\ base_score = 0
    /\ intrinsic_weight = Num(1)
    /\ current_time = None
    /\ clock = datetime(0, 0)
    /\ ret = None
    /\ draw = None
    /\ response = None
    /\ requests = <<>>
    /\ \E tc \in {x \in TopicCreateInputs : TopicCreate_valid(x)} :
          topics = <<inserted_topic(1, tc, datetime(0, 0)),
                     inserted_topic(2, [deck_id |-> 2, name |-> "topic",
                                        stability |-> Num(24), difficulty |-> Num(5),
                                        cards |-> <<Card(Rat(3, 2), "q4")>>],
                                    datetime(0, 0))>>

\* the reviews submitted, <<topic_id, index, base_score>>: Again for the card
\* of weight 2.0 and Good for the card of weight 1.0 of topic 1, an index past
\* the cards, a topic that does not exist, a score that is none
SubmitInputs ==
    {<<1, 1, 0>>, <<1, 2, 2>>, <<1, MaxCards, 2>>, <<3, 0, 2>>, <<1, 0, 4>>}

Service_submit_card_review ==
    /\ pc = "start"
    /\ Len(requests) < MaxRequests
    /\ \E in \in SubmitInputs : submit_card_review(in[1], in[2], in[3])

Service_submit_card_review_update ==
    /\ pc = "start"
    /\ \E r \in 1 .. Len(requests) : submit_card_review_update(r)

\* a card of weight 1.5 is added to topic 1
Service_add_card_to_topic ==
    /\ pc = "start"
    /\ Len(requests) < MaxRequests
    /\ add_card_to_topic(1, Card(Rat(3, 2), "q5"))

\* the second card of topic 1 is given weight 1.0
Service_update_card_in_topic ==
    /\ pc = "start"
    /\ Len(requests) < MaxRequests
    /\ update_card_in_topic(1, 1, Num(1))

\* the first card of topic 1 is deleted
Service_delete_card_from_topic ==
    /\ pc = "start"
    /\ Len(requests) < MaxRequests
    /\ delete_card_from_topic(1, 0)

\* one GET request of each kind at most (Request_..), the requests that write,
\* and the engine's sample_card called on its own on the cards of topic 1 as
\* they are stored, after which the run ends
ServiceNext ==
    \/ Request_get_deck_review_cards
    \/ Request_get_deck_practice_cards
    \/ Service_submit_card_review
    \/ Service_submit_card_review_update
    \/ Service_add_card_to_topic
    \/ Service_update_card_in_topic
    \/ Service_delete_card_from_topic
    \/ Call_sample_card

ServiceSpec == ServiceInit /\ [][ServiceNext]_vars

---------------------------------------------------------------------------
(* Properties of the service *)

\* the scheduling state of a row
Scheduling(tp) == <<tp.stability, tp.difficulty, tp.next_review, tp.last_reviewed>>

\* request r is a review that ran process_review
Reviewed(r) ==
    /\ requests[r].op = "submit_card_review"
    /\ requests[r].updates # None

\* request r is a review whose update of the row was done
Written(r) ==
    /\ requests[r].op = "submit_card_review"
    /\ requests[r].pc = "done"
    /\ requests[r].status = 200

\* C15, as claimed: for a stored topic (stability > 0, difficulty in [1, 10]),
\* every process_review with base_score 2 and weight 1.0, on the row as the
\* reviews before it left it, returns a stability >= the stability it read.
C15_GoodNeverDecreasesStability ==
    \A r \in 1 .. Len(requests) :
        (/\ Reviewed(r)
         /\ requests[r].base_score = 2
         /\ requests[r].intrinsic_weight = Num(1)
         /\ Lt(Num(0), requests[r].topic.stability)
         /\ WithinBounds(requests[r].topic.difficulty, MIN_DIFFICULTY, MAX_DIFFICULTY)) =>
            Le(requests[r].topic.stability, requests[r].updates.stability)

\* C15, amended: for a stored topic whose stability is in (0, 8760], every
\* process_review with base_score 2 and weight 1.0, on the row as the reviews
\* before it left it, returns a stability >= the stability it read; a stored
\* stability above 8760 is brought down to 8760 by the first review.
C15_GoodNeverDecreasesStabilityUpToMax ==
    \A r \in 1 .. Len(requests) :
        (/\ Reviewed(r)
         /\ requests[r].base_score = 2
         /\ requests[r].intrinsic_weight = Num(1)
         /\ Lt(Num(0), requests[r].topic.stability)
         /\ WithinBounds(requests[r].topic.difficulty, MIN_DIFFICULTY, MAX_DIFFICULTY)) =>
            /\ Le(requests[r].topic.stability, MAX_STABILITY) =>
                   Le(requests[r].topic.stability, requests[r].updates.stability)
            /\ Lt(MAX_STABILITY, requests[r].topic.stability) =>
                   requests[r].updates.stability = MAX_STABILITY

\* two Good reviews of the card of weight 1.0, the second on the row the first
\* one wrote, and stability grows both times
C15_Witness ==
    /\ Len(requests) >= 2
    /\ Written(1) /\ Written(2)
    /\ requests[1].base_score = 2 /\ requests[2].base_score = 2
    /\ requests[1].intrinsic_weight = Num(1) /\ requests[2].intrinsic_weight = Num(1)
    /\ requests[2].topic.stability = requests[1].updates.stability
    /\ Lt(requests[1].topic.stability, requests[1].updates.stability)
    /\ Lt(requests[2].topic.stability, requests[2].updates.stability)
    /\ topics[1].stability = requests[2].updates.stability

\* the row tp after the review of request q alone: process_review on tp with
\* q's score, weight and time, and the update of the row
reviewed(tp, q) ==
    updated_topic(tp, process_review(tp, q.base_score, q.intrinsic_weight,
                                     q.updates.last_reviewed))

\* C16, as claimed: when two submit_card_review requests for one topic have
\* both been served, however their steps interleaved, the stored (stability,
\* difficulty, next_review, last_reviewed) of the topic is what the two reviews
\* give when applied one after the other, in one order or the other, to the
\* row the first of them read.
C16_ConcurrentSubmitsSerialized ==
    \A i, j \in 1 .. Len(requests) :
        (/\ i < j
         /\ Written(i) /\ Written(j)
         /\ requests[i].topic_id = requests[j].topic_id
         /\ \A k \in 1 .. Len(requests) :
                (k \notin {i, j} /\ requests[k].topic_id = requests[i].topic_id)
                    => ~Written(k)) =>
            LET row0 == requests[i].topic
                a    == requests[i]
                b    == requests[j]
            IN  Scheduling(topics[a.topic_id]) \in
                    {Scheduling(reviewed(reviewed(row0, a), b)),
                     Scheduling(reviewed(reviewed(row0, b), a))}

\* C17, as claimed: when get_deck_review_cards has returned the item
\* (topic_id, card_index, intrinsic_weight w) and a review with a valid score
\* is then submitted for that topic_id and card_index, whatever card requests
\* were served in between, submit_card_review runs process_review with
\* intrinsic_weight = w.
C17_ReviewUsesShownWeight ==
    [][(/\ response # None
        /\ response.op = "get_deck_review_cards"
        /\ response.status = 200
        /\ Len(requests') = Len(requests) + 1
        /\ requests'[Len(requests')].op = "submit_card_review"
        /\ ReviewSubmission_valid(requests'[Len(requests')].base_score)) =>
           \A n \in 1 .. Len(response.cards) :
               (/\ response.cards[n].topic_id = requests'[Len(requests')].topic_id
                /\ response.cards[n].card_index = requests'[Len(requests')].index) =>
                   /\ requests'[Len(requests')].updates # None
                   /\ requests'[Len(requests')].intrinsic_weight
                          = response.cards[n].intrinsic_weight]_vars

\* C18: a step of get_deck_review_cards, of get_deck_practice_cards or of
\* sample_card leaves the rows of every topic as they are, cards included; a
\* step that changes a row is the step of a request that writes; and a step
\* that changes the stability, difficulty, next_review or last_reviewed of a
\* topic is the update of a submit_card_review request for that topic.
C18_SamplingLeavesTopicsUnchanged ==
    [][/\ (response' # response \/ pc' = "sample_card") => topics' = topics
       /\ topics' # topics => requests' # requests
       /\ \A t \in DOMAIN topics :
              Scheduling(topics'[t]) # Scheduling(topics[t]) =>
                  \E r \in 1 .. Len(requests) :
                      /\ requests[r].op = "submit_card_review"
                      /\ requests[r].topic_id = t
                      /\ requests[r].pc = "update"
                      /\ requests'[r] = Responded(requests[r], 200)]_vars

\* a card of topic 1 was handed out for review, a review of topic 1 was
\* written, and topic 2, which was only sampled, is as it was created
C18_Witness ==
    /\ response # None
    /\ response.op = "get_deck_review_cards"
    /\ response.status = 200
    /\ Len(response.cards) = 1
    /\ response.cards[1].topic_id = 1
    /\ \E r \in 1 .. Len(requests) :
          /\ Written(r)
          /\ Scheduling(topics[1]) # Scheduling(requests[r].topic)
          /\ Scheduling(topics[1]) = Scheduling(updated_topic(topics[1], requests[r].updates))
    /\ topics[2].last_reviewed = None
    /\ topics[2].stability = Num(24)

\* C19: a call of process_review leaves the topic passed to it and the stored
\* rows as they are, and a call on the same topic, base_score and
\* intrinsic_weight at the same time now returns what the call before it
\* returned, however much time has passed on the clock in between.
C19_ProcessReviewIsPure ==
    [][pc' = "process_review" =>
          /\ topic' = topic
          /\ topics' = topics
          /\ requests' = requests
          /\ (pc = "process_review" /\ ret.last_reviewed = time_or_now(current_time))
                 => ret' = ret]_vars

\* process_review was called with a time passed to it, and an hour later the
\* value returned is still the one a call returns
C19_Witness ==
    /\ pc = "process_review"
    /\ clock = datetime(3600, 0)
    /\ current_time # None
    /\ HasRow(topic)
    /\ ValidReview
    /\ ret.last_reviewed = current_time
    /\ ret = process_review(topic, base_score, intrinsic_weight, current_time)

\* C20: in every state the reviews lead to, each stored topic can be reviewed
\* again: for each base_score in 0..3 and each weight 0.5, 1.0, 1.5 and 2.0
\* process_review returns a stability in [2.4, 8760], a difficulty in [1, 10]
\* and a next_review after now, and submit_card_review for each card of the
\* topic is not refused: it goes on to update the row with what process_review
\* returned.  Stated in the states no card has been fetched in; a fetch leaves
\* the rows as they are.
C20_NoTerminalState ==
    (response = None /\ pc = "start") =>
    \A t \in DOMAIN topics :
        /\ \A bs \in 0 .. 3, w \in {Rat(1, 2), Num(1), Rat(3, 2), Num(2)} :
               LET next == process_review(topics[t], bs, w, None)
               IN  /\ WithinBounds(next.stability, MIN_STABILITY, MAX_STABILITY)
                   /\ WithinBounds(next.difficulty, MIN_DIFFICULTY, MAX_DIFFICULTY)
                   /\ dt_lt(clock, next.next_review)
        /\ \A bs \in 0 .. 3, i \in 0 .. (Len(parsed_cards(topics[t])) - 1) :
               LET q == submit_card_review_select(t, i, bs)
               IN  /\ q.pc = "update"
                   /\ q.updates = process_review(topics[t], bs,
                                      WeightOf(parsed_cards(topics[t])[i + 1]), None)

\* topic 1 was reviewed twice, the second review on what the first one wrote,
\* and an Easy review of its first card is accepted
C20_Witness ==
    /\ Len(requests) >= 2
    /\ Written(1) /\ Written(2)
    /\ requests[1].topic_id = 1 /\ requests[2].topic_id = 1
    /\ Scheduling(requests[2].topic) = Scheduling(updated_topic(requests[1].topic, requests[1].updates))
    /\ Scheduling(topics[1]) = Scheduling(updated_topic(topics[1], requests[2].updates))
    /\ submit_card_review_select(1, 0, 3).pc = "update"

---------------------------------------------------------------------------
(* routers/topics.py: create_topic and update_topic, which are one call to  *)
(* the database, and the card requests step by step: the select of the row  *)
(* and the update of its cards column are two calls, and requests of other  *)
(* clients can be served in between.                                        *)

\* a request as it arrives, with the part of its body the handler works on
ArrivedWith(op, topic_id, index, body) ==
    [op |-> op, topic_id |-> topic_id, index |-> index, base_score |-> 0,
     body |-> body, pc |-> "select", status |-> 0,
     topic |-> None, intrinsic_weight |-> None, updates |-> None]

\* a bug TopicUpdate could have: no bounds on stability and difficulty
TopicUpdate_valid_cards_only(tu) ==
    "cards" \in DOMAIN tu =>
        /\ Len(tu.cards) <= CardLimit
        /\ \A i \in 1 .. Len(tu.cards) : CardItem_valid(tu.cards[i])

\* TopicUpdate: every field optional; stability gt=0, difficulty ge=1 le=10,
\* at most 25 cards, each a CardItem
TopicUpdate_valid(tu) ==
    /\ "stability" \in DOMAIN tu => Lt(Num(0), tu.stability)
    /\ "difficulty" \in DOMAIN tu =>
           Le(Num(1), tu.difficulty) /\ Le(tu.difficulty, Num(10))
    /\ "cards" \in DOMAIN tu =>
           /\ Len(tu.cards) <= CardLimit
           /\ \A i \in 1 .. Len(tu.cards) : CardItem_valid(tu.cards[i])

\* CardCreateBatch: cards: min_items=1, max_items=25, each a CardCreate
CardCreateBatch_valid(batch) ==
    /\ Len(batch.cards) >= 1
    /\ Len(batch.cards) <= CardLimit
    /\ \A i \in 1 .. Len(batch.cards) : CardItem_valid(batch.cards[i])
    /\ batch.mode \in {"append", "replace"}

\* _build_card_item(card, batch_index): the dict stored for a CardCreate
build_card_item(card) ==
    [card_type        |-> card.card_type,
     intrinsic_weight |-> Get(card, "intrinsic_weight", Num(1)),
     card_data        |-> card.card_data]

\* POST /topics
create_topic(tc) ==
    LET id == Len(topics) + 1
        q  == ArrivedWith("create_topic", id, 0, tc)
    IN  /\ IF ~TopicCreate_valid(tc)
           THEN requests' = Append(requests, Responded(q, 422)) /\ UNCHANGED topics
           ELSE IF tc.deck_id \notin Decks
           THEN requests' = Append(requests, Responded(q, 404)) /\ UNCHANGED topics
           ELSE /\ topics' = Append(topics, inserted_topic(id, tc, clock))
                /\ requests' = Append(requests, Responded(q, 201))
        /\ UNCHANGED <<pc, engineArgs, clock, ret, draw, response>>

\* update_data of update_topic: the fields of the body that are not None
update_data(tu) ==
    [k \in DOMAIN tu |->
        IF k = "cards"
        THEN json_dumps([i \in 1 .. Len(tu.cards) |-> model_dump(tu.cards[i])])
        ELSE tu[k]]

\* PATCH /topics/{topic_id}
update_topic(topic_id, tu) ==
    LET q == ArrivedWith("update_topic", topic_id, 0, tu)
    IN  /\ IF ~TopicUpdate_valid(tu)
           THEN requests' = Append(requests, Responded(q, 422)) /\ UNCHANGED topics
           ELSE IF topic_id \notin DOMAIN topics
           THEN requests' = Append(requests, Responded(q, 404)) /\ UNCHANGED topics
           ELSE /\ topics' = [topics EXCEPT ![topic_id] =
                                 [k \in DOMAIN @ |->
                                     IF k \in DOMAIN tu THEN update_data(tu)[k] ELSE @[k]]]
                /\ requests' = Append(requests, Responded(q, 200))
        /\ UNCHANGED <<pc, engineArgs, clock, ret, draw, response>>

\* a card request about to write `cards` to the row it read
Selected(q, row, cards) ==
    [q EXCEPT !.pc = "update", !.topic = row,
              !.updates = [cards |-> json_dumps(cards)]]

\* POST /topics/{topic_id}/cards, from the validation of the body to the new
\* cards array
add_card_to_topic_select(topic_id, card) ==
    LET q == ArrivedWith("add_card_to_topic", topic_id, 0, <<card>>)
    IN  IF ~CardItem_valid(card) THEN Responded(q, 422)
        ELSE IF topic_id \notin DOMAIN topics THEN Responded(q, 404)
        ELSE LET row   == topics[topic_id]
                 cards == parsed_cards(row)
             IN  IF Len(cards) >= CardLimit
                 THEN Responded([q EXCEPT !.topic = row], 400)
                 ELSE Selected(q, row, Append(cards, build_card_item(card)))

\* a bug add_cards_batch_to_topic could have: the limit checked on the batch
\* alone in append mode too
add_cards_batch_to_topic_select_batch_only(topic_id, batch) ==
    LET q == ArrivedWith("add_cards_batch_to_topic", topic_id, 0, batch)
    IN  IF ~CardCreateBatch_valid(batch) THEN Responded(q, 422)
        ELSE IF topic_id \notin DOMAIN topics THEN Responded(q, 404)
        ELSE LET row   == topics[topic_id]
                 cards == IF batch.mode = "replace" THEN <<>> ELSE parsed_cards(row)
                 new_cards == [i \in 1 .. Len(batch.cards) |->
                                  build_card_item(batch.cards[i])]
             IN  IF Len(batch.cards) > CardLimit
                 THEN Responded([q EXCEPT !.topic = row], 400)
                 ELSE Selected(q, row, cards \o new_cards)

\* POST /topics/{topic_id}/cards/batch, from the validation of the body to the
\* new cards array
add_cards_batch_to_topic_select(topic_id, batch) ==
    LET q == ArrivedWith("add_cards_batch_to_topic", topic_id, 0, batch)
    IN  IF ~CardCreateBatch_valid(batch) THEN Responded(q, 422)
        ELSE IF topic_id \notin DOMAIN topics THEN Responded(q, 404)
        ELSE LET row   == topics[topic_id]
                 cards == IF batch.mode = "replace" THEN <<>> ELSE parsed_cards(row)
                 new_cards == [i \in 1 .. Len(batch.cards) |->
                                  build_card_item(batch.cards[i])]
             IN  IF Len(cards) + Len(batch.cards) > CardLimit
                 THEN Responded([q EXCEPT !.topic = row], 400)
                 ELSE Selected(q, row, cards \o new_cards)

\* PATCH /topics/{topic_id}/cards/{index} for a CardUpdate that gives the
\* weight w and none of the text fields, up to the new cards array
update_card_in_topic_select(topic_id, index, w) ==
    LET q == ArrivedWith("update_card_in_topic", topic_id, index, <<w>>)
    IN  IF w # None /\ ~intrinsic_weight_valid(w) THEN Responded(q, 422)
        ELSE IF topic_id \notin DOMAIN topics THEN Responded(q, 404)
        ELSE LET row   == topics[topic_id]
                 cards == parsed_cards(row)
             IN  IF index < 0 \/ index >= Len(cards)
                 THEN Responded([q EXCEPT !.topic = row], 404)
                 ELSE Selected(q, row,
                          [cards EXCEPT ![index + 1] =
                              IF w # None THEN with_weight(@, w) ELSE @])

\* DELETE /topics/{topic_id}/cards/{index}, up to the new cards array
delete_card_from_topic_select(topic_id, index) ==
    LET q == ArrivedWith("delete_card_from_topic", topic_id, index, <<>>)
    IN  IF topic_id \notin DOMAIN topics THEN Responded(q, 404)
        ELSE LET row   == topics[topic_id]
                 cards == parsed_cards(row)
             IN  IF index < 0 \/ index >= Len(cards)
                 THEN Responded([q EXCEPT !.topic = row], 404)
                 ELSE Selected(q, row, list_pop(cards, index))

CardRequests ==
    {"add_card_to_topic", "add_cards_batch_to_topic", "update_card_in_topic",
     "delete_card_from_topic"}

\* the status of a card request that succeeded
SuccessStatus(op) ==
    IF op \in {"add_card_to_topic", "add_cards_batch_to_topic"} THEN 201
    ELSE IF op = "delete_card_from_topic" THEN 204
    ELSE 200

\* a request arrives and is served up to its update
card_request_select(q) ==
    /\ requests' = Append(requests, q)
    /\ UNCHANGED <<pc, engineArgs, clock, ret, topics, draw, response>>

\* db.table("topics").update({"cards": json.dumps(cards)}).eq("id", topic_id)
\* and the response
card_request_update(r) ==
    /\ requests[r].op \in CardRequests
    /\ requests[r].pc = "update"
    /\ LET q == requests[r]
       IN  IF q.topic_id \notin DOMAIN topics
           THEN /\ requests' = [requests EXCEPT ![r] = Responded(q, 500)]
                /\ UNCHANGED topics
           ELSE /\ topics' = [topics EXCEPT ![q.topic_id] =
                                 [@ EXCEPT !.cards = q.updates.cards]]
                /\ requests' = [requests EXCEPT ![r] = Responded(q, SuccessStatus(q.op))]
    /\ UNCHANGED <<pc, engineArgs, clock, ret, draw, response>>

---------------------------------------------------------------------------
(* The store: topic 1 as it was created, and clients that create a second  *)
(* topic, update topic 1, edit its cards and submit reviews of it, in any   *)
(* order and interleaving, up to MaxRequests requests.                      *)

\* n cards of weight 1.0
StoreCards(n) == [i \in 1 .. n |-> Card(Num(1), "q")]

\* a card body that gives no weight
UnweightedCard == [card_type |-> "qa_hint", card_data |-> "q0"]

TopicCreateBody(s, d, cards) ==
    [deck_id |-> 1, name |-> "topic", stability |-> s, difficulty |-> d, cards |-> cards]

\* the bodies topic 1 was created with: one card short of the limit; no cards,
\* the least difficulty and a stability below the engine's range; two cards,
\* the greatest difficulty and a stability above the engine's range
StoredCreateInputs ==
    {TopicCreateBody(Num(24), Num(5), StoreCards(CardLimit - 1)),
     TopicCreateBody(Rat(1, 100), Num(1), <<>>),
     TopicCreateBody(Num(20000), Num(10), <<Card(Rat(1, 2), "q1"), Card(Num(2), "q2")>>)}

\* bodies of POST /topics: a card without a weight, stability 0, difficulty
\* 11, one card too many, a card of weight 3
CreateInputs ==
    {TopicCreateBody(Num(24), Num(5), <<UnweightedCard>>),
     TopicCreateBody(Num(0), Num(5), <<>>),
     TopicCreateBody(Num(24), Num(11), <<>>),
     TopicCreateBody(Num(24), Num(5), StoreCards(CardLimit + 1)),
     TopicCreateBody(Num(24), Num(5), <<Card(Num(3), "q1")>>)}

\* bodies of PATCH /topics/1
UpdateInputs ==
    {[stability |-> Num(20000)],
     [stability |-> Num(0)],
     [difficulty |-> Num(11)],
     [cards |-> StoreCards(CardLimit)],
     [cards |-> StoreCards(CardLimit + 1)],
     [cards |-> <<Card(Rat(1, 4), "q1")>>]}

\* bodies of POST /topics/1/cards
AddInputs == {Card(Rat(3, 2), "q5"), Card(Num(0), "q5")}

\* bodies of POST /topics/1/cards/batch
BatchInputs ==
    {[mode |-> "append", cards |-> <<UnweightedCard, Card(Num(2), "q6")>>],
     [mode |-> "replace", cards |-> <<Card(Rat(1, 2), "q7")>>],
     [mode |-> "append", cards |-> StoreCards(CardLimit + 1)]}

\* weights of PATCH /topics/1/cards/0
WeightUpdateInputs == {Num(2), Rat(5, 2)}

\* the reviews submitted, <<topic_id, index, base_score>>: Good for the first
\* card of topic 1, the scores 4 and -1, a negative index, an index past the
\* cards, a topic that does not exist
StoreSubmitInputs ==
    {<<1, 0, 2>>, <<1, 0, 4>>, <<1, 0, -1>>, <<1, -1, 2>>, <<1, CardLimit, 2>>,
     <<3, 0, 0>>}

StoreInit ==
    /\ pc = "start"
    /\ topic = [name |-> Num(0)]
    /\ base_score = 0
    /\ intrinsic_weight = Num(1)
    /\ current_time = None
    /\ clock = datetime(0, 0)
    /\ ret = None
    /\ draw = None
    /\ response = None
    /\ requests = <<>>
    /\ \E tc \in StoredCreateInputs : topics = <<inserted_topic(1, tc, datetime(0, 0))>>

Store_create_topic ==
    /\ Len(requests) < MaxRequests
    /\ \E tc \in CreateInputs : create_topic(tc)

Store_update_topic ==
    /\ Len(requests) < MaxRequests
    /\ \E tu \in UpdateInputs : update_topic(1, tu)

Store_submit_card_review ==
    /\ Len(requests) < MaxRequests
    /\ \E in \in StoreSubmitInputs : submit_card_review(in[1], in[2], in[3])

Store_submit_card_review_update ==
    \E r \in 1 .. Len(requests) : submit_card_review_update(r)

Store_add_card_to_topic ==
    /\ Len(requests) < MaxRequests
    /\ \E card \in AddInputs : card_request_select(add_card_to_topic_select(1, card))

Store_add_cards_batch_to_topic ==
    /\ Len(requests) < MaxRequests
    /\ \E batch \in BatchInputs :
          card_request_select(add_cards_batch_to_topic_select(1, batch))

Store_update_card_in_topic ==
    /\ Len(requests) < MaxRequests
    /\ \E w \in WeightUpdateInputs :
          card_request_select(update_card_in_topic_select(1, 0, w))

Store_delete_card_from_topic ==
    /\ Len(requests) < MaxRequests
    /\ card_request_select(delete_card_from_topic_select(1, 0))

Store_card_request_update ==
    \E r \in 1 .. Len(requests) : card_request_update(r)

StoreNext ==
    \/ Store_create_topic
    \/ Store_update_topic
    \/ Store_submit_card_review
    \/ Store_submit_card_review_update
    \/ Store_add_card_to_topic
    \/ Store_add_cards_batch_to_topic
    \/ Store_update_card_in_topic
    \/ Store_delete_card_from_topic
    \/ Store_card_request_update

StoreSpec == StoreInit /\ [][StoreNext]_vars

---------------------------------------------------------------------------
(* Properties of the store *)

\* what the engine's formulas give for the score bs as it is, at weight 1.0
UncoercedStability(S, bs) ==
    Clamp(Mul(S, Add(Num(1), Mul(Num(bs), Rat(15, 100)))), Rat(24, 10), Num(8760))

UncoercedDifficulty(D, bs) ==
    Clamp(Sub(D, Mul(Num(bs - 2), Rat(3, 10))), Num(1), Num(10))

\* C21: a submit_card_review request whose base_score is not 0, 1, 2 or 3 is
\* answered 422 on arrival, without process_review having run, the step writes
\* nothing to the rows, and the request takes no further step; the engine,
\* called on a stored row with the score -1 or 4 and weight 1.0, computes with
\* that score as it is: stability * (1 + score * 0.15) and
\* difficulty - (score - 2) * 0.3, clamped.
C21_InvalidScoreRejected ==
    [][/\ \A r \in 1 .. Len(requests') :
              (/\ requests'[r].op = "submit_card_review"
               /\ requests'[r].base_score \notin 0 .. 3) =>
                  /\ requests'[r].pc = "done"
                  /\ requests'[r].status = 422
                  /\ requests'[r].updates = None
                  /\ r > Len(requests) => topics' = topics
                  /\ r <= Len(requests) => requests'[r] = requests[r]
       /\ \A t \in DOMAIN topics', bs \in {-1, 4} :
              LET out == process_review(topics'[t], bs, Num(1), None)
              IN  /\ out.stability = UncoercedStability(topics'[t].stability, bs)
                  /\ out.difficulty = UncoercedDifficulty(topics'[t].difficulty, bs)]_vars

\* a review with score 4 was refused, a Good review of the same card was then
\* written, and score 4 would have given another stability than score 3
C21_Witness ==
    /\ Len(requests) = 2
    /\ requests[1].op = "submit_card_review"
    /\ requests[1].base_score = 4
    /\ requests[1].status = 422
    /\ requests[2].op = "submit_card_review"
    /\ requests[2].base_score = 2
    /\ requests[2].pc = "done"
    /\ requests[2].status = 200
    /\ topics[1].stability = requests[2].updates.stability
    /\ process_review(requests[2].topic, 4, Num(1), None).stability
           # process_review(requests[2].topic, 3, Num(1), None).stability

\* C22, as claimed: sample_card on a list that holds a card of weight <= 0
\* raises an exception and returns no card, and process_review called with an
\* intrinsic_weight <= 0 raises an exception and returns no parameter set.
C22_NonPositiveWeightRejected ==
    /\ (/\ pc = "sample_card"
        /\ \E i \in 1 .. Len(SampledCards) : Le(WeightOf(SampledCards[i]), Num(0))) =>
           ret.raised # ""
    /\ (pc = "process_review" /\ Le(intrinsic_weight, Num(0))) =>
           ("raised" \in DOMAIN ret /\ ret.raised # "")

\* the number of cards the add or batch request q asks for: those it keeps of
\* the stored array and those of its body
AskedCards(q) ==
    IF q.op = "add_card_to_topic"
    THEN Len(parsed_cards(topics[q.topic_id])) + 1
    ELSE IF q.body.mode = "replace" THEN Len(q.body.cards)
    ELSE Len(parsed_cards(topics[q.topic_id])) + Len(q.body.cards)

\* C23: whatever requests to create_topic, update_topic and the four card
\* handlers are served, and however the selects and updates of the card
\* handlers interleave, every stored topic holds at most 25 cards; a request
\* to add_card_to_topic or add_cards_batch_to_topic that asks for more than 25
\* on the row as stored when it arrives is answered 400 or 422, writes nothing
\* on arrival and takes no further step.
C23_CardLimitKept ==
    [][/\ \A t \in DOMAIN topics' : Len(parsed_cards(topics'[t])) \in 0 .. 25
       /\ \A r \in (Len(requests) + 1) .. Len(requests') :
              (/\ requests'[r].op \in {"add_card_to_topic", "add_cards_batch_to_topic"}
               /\ requests'[r].topic_id \in DOMAIN topics
               /\ AskedCards(requests'[r]) > 25) =>
                  /\ requests'[r].pc = "done"
                  /\ requests'[r].status \in {400, 422}
                  /\ requests'[r].updates = None
                  /\ topics' = topics
       /\ \A r \in 1 .. Len(requests) :
              requests[r].pc = "done" => requests'[r] = requests[r]]_vars

\* a card was added to the 24 of topic 1, and the batch of two that arrived
\* next was refused: the topic holds 25 cards
C23_Witness ==
    /\ Len(requests) = 2
    /\ requests[1].op = "add_card_to_topic"
    /\ requests[1].status = 201
    /\ Len(parsed_cards(requests[1].topic)) = 24
    /\ requests[2].op = "add_cards_batch_to_topic"
    /\ requests[2].status = 400
    /\ Len(parsed_cards(requests[2].topic)) = 25
    /\ Len(parsed_cards(topics[1])) = 25

\* C24: whatever requests to create_topic, update_topic and submit_card_review
\* are served, every stored topic has stability > 0 and 1 <= difficulty <= 10.
C24_StoredParametersValid ==
    \A t \in DOMAIN topics :
        /\ Lt(Num(0), topics[t].stability)
        /\ Le(Num(1), topics[t].difficulty)
        /\ Le(topics[t].difficulty, Num(10))

\* topic 1 was given stability 20000 by update_topic, and the Good review
\* that followed stored 8760
C24_Witness ==
    /\ Len(requests) = 2
    /\ requests[1].op = "update_topic"
    /\ requests[1].status = 200
    /\ requests[1].body = [stability |-> Num(20000)]
    /\ requests[2].op = "submit_card_review"
    /\ requests[2].status = 200
    /\ requests[2].topic.stability = Num(20000)
    /\ topics[1].stability = Num(8760)

\* C25: whatever requests to create_topic, update_topic and the card handlers
\* are served, every stored card has an intrinsic_weight, and it lies in
\* [0.5, 2.0]; so does every weight submit_card_review has read from a row.
C25_StoredWeightsBounded ==
    /\ \A t \in DOMAIN topics :
           \A i \in 1 .. Len(parsed_cards(topics[t])) :
               /\ "intrinsic_weight" \in DOMAIN parsed_cards(topics[t])[i]
               /\ Le(Rat(1, 2), parsed_cards(topics[t])[i].intrinsic_weight)
               /\ Le(parsed_cards(topics[t])[i].intrinsic_weight, Num(2))
    /\ \A r \in 1 .. Len(requests) :
           (requests[r].op = "submit_card_review" /\ requests[r].updates # None) =>
               /\ Le(Rat(1, 2), requests[r].intrinsic_weight)
               /\ Le(requests[r].intrinsic_weight, Num(2))

\* a batch appended a card whose body gave no weight, stored with weight 1.0,
\* and the first card was then given weight 2.0
C25_Witness ==
    /\ Len(requests) = 2
    /\ requests[1].op = "add_cards_batch_to_topic"
    /\ requests[1].status = 201
    /\ requests[2].op = "update_card_in_topic"
    /\ requests[2].status = 200
    /\ requests[2].topic.cards = requests[1].updates.cards
    /\ parsed_cards(topics[1])[1].intrinsic_weight = Num(2)
    /\ \E i \in 1 .. Len(parsed_cards(topics[1])) :
          /\ parsed_cards(topics[1])[i].card_data = "q0"
          /\ parsed_cards(topics[1])[i].intrinsic_weight = Num(1)

\* C26: the step in which submit_card_review updates the row of its topic
\* changes the stability, difficulty, next_review and last_reviewed of that row
\* to what process_review returned, and nothing else: id, deck_id, name and
\* cards of the row, as they are stored at that moment, and the rows of all
\* other topics stay as they are.
C26_SubmitWritesSchedulingOnly ==
    [][\A r \in 1 .. Len(requests) :
          (/\ requests[r].op = "submit_card_review"
           /\ requests[r].pc = "update"
           /\ requests'[r].pc = "done"
           /\ requests'[r].status = 200) =>
              LET id == requests[r].topic_id
              IN  /\ DOMAIN topics' = DOMAIN topics
                  /\ \A t \in DOMAIN topics : t # id => topics'[t] = topics[t]
                  /\ DOMAIN topics'[id] = DOMAIN topics[id]
                  /\ \A k \in DOMAIN topics[id] \
                         {"stability", "difficulty", "next_review", "last_reviewed"} :
                         topics'[id][k] = topics[id][k]
                  /\ topics'[id].stability = requests[r].updates.stability
                  /\ topics'[id].difficulty = requests[r].updates.difficulty
                  /\ topics'[id].next_review = requests[r].updates.next_review
                  /\ topics'[id].last_reviewed = requests[r].updates.last_reviewed]_vars

\* a card was added between the select and the update of a review: the row
\* holds the review's values and the cards the add request wrote
C26_Witness ==
    /\ Len(requests) = 2
    /\ requests[1].op = "submit_card_review"
    /\ requests[1].pc = "done"
    /\ requests[1].status = 200
    /\ requests[2].op = "add_card_to_topic"
    /\ requests[2].status = 201
    /\ topics[1].cards = requests[2].updates.cards
    /\ topics[1].cards # requests[1].topic.cards
    /\ topics[1].stability = requests[1].updates.stability
    /\ topics[1].last_reviewed = requests[1].updates.last_reviewed

\* C27: a submit_card_review request with a valid score for a topic that is
\* not stored, or with an index that is negative or not below the number of
\* cards of the topic as stored when it arrives (so any index on a topic
\* without cards), is answered 404 on arrival without process_review having
\* run, the step leaves every row as it is, and the request takes no further
\* step.
C27_SubmitNotFound ==
    [][/\ \A r \in (Len(requests) + 1) .. Len(requests') :
              (/\ requests'[r].op = "submit_card_review"
               /\ requests'[r].base_score \in 0 .. 3
               /\ \/ requests'[r].topic_id \notin DOMAIN topics
                  \/ requests'[r].index < 0
                  \/ requests'[r].index >=
                         Len(parsed_cards(topics[requests'[r].topic_id]))) =>
                  /\ requests'[r].pc = "done"
                  /\ requests'[r].status = 404
                  /\ requests'[r].updates = None
                  /\ topics' = topics
       /\ \A r \in 1 .. Len(requests) :
              requests[r].status = 404 =>
                  (requests'[r] = requests[r] /\ requests[r].pc = "done")]_vars

\* a review of the first card of a topic without cards and a review of a topic
\* that is not stored were both answered 404, and the topic is as created
C27_Witness ==
    /\ Len(requests) = 2
    /\ requests[1].op = "submit_card_review"
    /\ requests[1].topic_id = 1
    /\ requests[1].index = 0
    /\ requests[1].status = 404
    /\ requests[2].op = "submit_card_review"
    /\ requests[2].topic_id = 3
    /\ requests[2].status = 404
    /\ Len(parsed_cards(topics[1])) = 0
    /\ topics[1].last_reviewed = None
    /\ topics[1].stability = Rat(1, 100)

---------------------------------------------------------------------------
(* A run of Again reviews.  Each review feeds on the stability and the      *)
(* difficulty the one before it returned.  Halving a binary64 is exact, so  *)
(* the stabilities are the rationals of update_stability.  The sums         *)
(* D + 0.6 of update_difficulty are rounded to 53 bits, and the run is      *)
(* about reaching 10.0 exactly, so the difficulties are binary64 values: a  *)
(* value in [1, 16) is a whole number of 2^-53, kept in two limbs,          *)
(* hi * 2^28 + lo.                                                          *)

Limb == 2 ^ 28

F64(hi, lo) == [hi |-> hi, lo |-> lo]

\* the binary64 of a whole number k in 1 .. 15
f64_int(k) == F64(k * (2 ^ 25), 0)

f64_lt(a, b) == a.hi < b.hi \/ (a.hi = b.hi /\ a.lo < b.lo)

\* the binary64 nearest to hi * 2^28 + lo (times 2^-53), ties to even: the
\* spacing of the values is 2, 4, 8, 16 (times 2^-53) in [1, 2), [2, 4),
\* [4, 8), [8, 16)
f64_round(hi, lo) ==
    LET h    == hi + (lo \div Limb)
        l    == lo % Limb
        ulp  == IF h >= 2 ^ 28 THEN 16 ELSE IF h >= 2 ^ 27 THEN 8
                ELSE IF h >= 2 ^ 26 THEN 4 ELSE 2
        r    == l % ulp
        down == l - r
        up   == 2 * r > ulp \/ (2 * r = ulp /\ (down \div ulp) % 2 = 1)
        l2   == IF up THEN down + ulp ELSE down
    IN  IF l2 = Limb THEN F64(h + 1, 0) ELSE F64(h, l2)

\* a + b in binary64
f64_add(a, b) == f64_round(a.hi + b.hi, a.lo + b.lo)

\* a delta update_difficulty could wrongly have: DIFFICULTY_RATE
\* alone, 0.3, to the nearest 2^-53
again_difficulty_delta_rate_only == F64(10066329, 161061274)

\* -difficulty_delta for base_score 0: (0 * intrinsic_weight - 2.0) * 0.3 is
\* -2.0 * 0.3 = -0.6, and the binary64 0.6 is 5404319552844595 * 2^-53
again_difficulty_delta == F64(20132659, 53687091)

\* update_difficulty(current_difficulty, 0, w) in binary64:
\* max(1.0, min(10.0, current_difficulty - (-0.6)))
update_difficulty_again(current_difficulty) ==
    LET new_difficulty == f64_add(current_difficulty, again_difficulty_delta)
        capped == IF f64_lt(f64_int(10), new_difficulty) THEN f64_int(10)
                  ELSE new_difficulty
    IN  IF f64_lt(capped, f64_int(1)) THEN f64_int(1) ELSE capped

\* the longest run
MaxReviews == 17

\* stabilities the run starts from: the bounds, values just above the lower
\* bound, and values in between
AgainStabilityInputs ==
    {Rat(24, 10), Rat(25, 10), Rat(48, 10), Num(24), Num(4380), Num(8760)}

\* difficulties the run starts from: 1.0, 1.3, 4.0, 5.0, 9.7 and 10.0
AgainDifficultyInputs ==
    {f64_int(1), F64(43620761, 161061274), f64_int(4), f64_int(5),
     F64(325477990, 107374176), f64_int(10)}

\* the weights of the cards reviewed
AgainWeightInputs == {Rat(1, 2), Num(1), Num(2)}

\* `requests` holds what each review of the run returned, in order
AgainInit ==
    /\ pc = "start"
    /\ topic \in {[stability |-> s, difficulty |-> d] :
                     s \in AgainStabilityInputs, d \in AgainDifficultyInputs}
    /\ base_score = 0
    /\ intrinsic_weight = Num(1)
    /\ current_time = None
    /\ clock = datetime(0, 0)
    /\ ret = None
    /\ topics = <<>>
    /\ draw = None
    /\ response = None
    /\ requests = <<>>

\* process_review(topic, 0, w), as far as the next review reads it: the new
\* stability and the new difficulty, which the caller stores
Again_process_review ==
    /\ Len(requests) < MaxReviews
    /\ \E w \in AgainWeightInputs :
          /\ intrinsic_weight' = w
          /\ ret' = [stability  |-> update_stability(topic.stability, base_score, w),
                     difficulty |-> update_difficulty_again(topic.difficulty)]
    /\ topic' = ret'
    /\ requests' = Append(requests, ret')
    /\ pc' = "process_review"
    /\ UNCHANGED <<base_score, current_time, clock, topics, draw, response>>

AgainNext == Again_process_review

AgainSpec == AgainInit /\ [][AgainNext]_vars

\* C28, as claimed: in a run of Again reviews from a stability in [2.4, 8760]
\* and a difficulty in [1, 10], from the 12th review on the stability is 2.4,
\* and from the 15th review on the difficulty is 10.0.
C28_AgainRunReachesBoundsIn12And15 ==
    /\ Len(requests) >= 12 => topic.stability = MIN_STABILITY
    /\ Len(requests) >= 15 => topic.difficulty = f64_int(10)

\* C28, amended: in a run of Again reviews from a stability in [2.4, 8760] and
\* a difficulty in [1, 10], from the 12th review on the stability is 2.4, and
\* from the 16th review on the difficulty is 10.0; neither ever decreases
\* below what it was, and once at 2.4 and 10.0 they stay there.
C28_AgainRunReachesBoundsIn12And16 ==
    /\ Len(requests) >= 12 => topic.stability = MIN_STABILITY
    /\ Len(requests) >= 16 => topic.difficulty = f64_int(10)
    /\ \A n \in 1 .. (Len(requests) - 1) :
           /\ requests[n].stability = MIN_STABILITY =>
                  requests[n + 1].stability = MIN_STABILITY
           /\ requests[n].difficulty = f64_int(10) =>
                  requests[n + 1].difficulty = f64_int(10)
           /\ ~Lt(requests[n].stability, requests[n + 1].stability)
           /\ ~f64_lt(requests[n + 1].difficulty, requests[n].difficulty)

\* the run from stability 8760 and difficulty 1.0: the 11th review returns
\* stability 4.27734375 and the 12th 2.4; the 15th returns difficulty
\* 9.999999999999996 and the 16th 10.0
C28_Witness ==
    /\ Len(requests) = 16
    /\ requests[1].stability = Num(4380)
    /\ requests[11].stability = Rat(1095, 256)
    /\ requests[12].stability = MIN_STABILITY
    /\ requests[1].difficulty = F64(53687091, 53687092)
    /\ requests[15].difficulty = F64(335544319, 268435424)
    /\ requests[16].difficulty = f64_int(10)

---------------------------------------------------------------------------
(* Stored cards with no intrinsic_weight field *)

\* the stored cards the request for deck_id can sample from
DeckCards(deck_id) ==
    UNION {{parsed_cards(topics[t])[i] : i \in 1 .. Len(parsed_cards(topics[t]))} :
              t \in {x \in DOMAIN topics : topics[x].deck_id = deck_id}}

\* C30, as claimed: a request to get_deck_review_cards or
\* get_deck_practice_cards for a deck whose stored cards all have a positive
\* weight, the cards with no intrinsic_weight field counting as 1.0, does not
\* fail, and every card it returns carries the stored card's weight, 1.0 for
\* a card with no intrinsic_weight field.
C30_MissingWeightReturnedAsOne ==
    (/\ response # None
     /\ response.deck_id \in Decks
     /\ \A card \in DeckCards(response.deck_id) : Lt(Num(0), WeightOf(card)))
        => /\ response.status = 200
           /\ \A k \in 1 .. Len(response.cards) :
                  LET item == response.cards[k]
                  IN  item.intrinsic_weight =
                          WeightOf(parsed_cards(topics[item.topic_id])[item.card_index + 1])

---------------------------------------------------------------------------
(* The due queries after a review: topics are reviewed while time passes,  *)
(* and the two due queries are asked at any moment.                        *)

\* .lte("next_review", now) of get_due_topics, over the topics of all decks
all_due_topics(now) ==
    {t \in DOMAIN topics : dt_le(topics[t].next_review, timestamp(now))}

\* topic['cards'] = json.loads(topic['cards']) when the column holds a string
with_parsed_cards(row) ==
    IF "cards" \in DOMAIN row /\ row.cards.str
    THEN [row EXCEPT !.cards = json_loads(row.cards)]
    ELSE row

\* GET /topics/due?limit=..; limit 0 stands for no limit given ("if limit:"
\* takes None and 0 alike)
get_due_topics(limit) ==
    /\ \E o \in {x \in Orders(all_due_topics(isoformat(clock))) : ByNextReview(x)} :
          LET data == IF limit # 0 THEN Limit(o, limit) ELSE o
          IN  response' = [op     |-> "get_due_topics",
                           status |-> 200,
                           topics |-> [i \in 1 .. Len(data) |->
                                          with_parsed_cards(topics[data[i]])]]
    /\ UNCHANGED <<pc, engineArgs, clock, ret, topics, draw, requests>>

\* the values of ?limit=
LimitInputs == {0, 1}

\* stability and difficulty of topic 1 when it was created
DueTopicInputs ==
    {<<Rat(12, 5), Num(1)>>, <<Num(24), Num(5)>>, <<Num(8760), Num(10)>>}

\* the reviews submitted, <<topic_id, index, base_score>>
DueSubmitInputs == {<<1, 0, 0>>, <<1, 1, 3>>, <<2, 0, 2>>}

\* topics 1 and 2 of deck 1 as create_topic stored them at time 0
DueInit ==
    /\ pc = "start"
    /\ topic = [name |-> Num(0)]
    /\ base_score = 0
    /\ intrinsic_weight = Num(1)
    /\ current_time = None
    /\ clock = datetime(0, 0)
    /\ ret = None
    /\ draw = None
    /\ response = None
    /\ requests = <<>>
    /\ \E sd \in DueTopicInputs :
          topics = <<inserted_topic(1, [deck_id |-> 1, name |-> "topic",
                                        stability |-> sd[1], difficulty |-> sd[2],
                                        cards |-> <<Card(Num(1), "q1"),
                                                    Card(Num(2), "q2")>>],
                                    datetime(0, 0)),
                     inserted_topic(2, [deck_id |-> 1, name |-> "topic",
                                        stability |-> Num(24), difficulty |-> Num(5),
                                        cards |-> <<Card(Num(1), "q3")>>],
                                    datetime(0, 0))>>

\* datetime.now() moves on by an hour and a half, past the next_review of a
\* topic of stability 2.4 and difficulty 1 failed again (2.4 * 0.592 hours
\* after its review)
Due_Tick ==
    /\ clock.s < 5400 * MaxTicks
    /\ clock' = dt_add(clock, datetime(5400, 0))
    /\ UNCHANGED <<pc, engineArgs, ret, topics, draw, response, requests>>

Due_submit_card_review ==
    /\ Len(requests) < MaxRequests
    /\ \E in \in DueSubmitInputs : submit_card_review(in[1], in[2], in[3])

Due_submit_card_review_update ==
    \E r \in 1 .. Len(requests) : submit_card_review_update(r)

Due_get_deck_review_cards ==
    \E deck_id \in Decks : get_deck_review_cards(deck_id)

Due_get_due_topics ==
    \E limit \in LimitInputs : get_due_topics(limit)

DueNext ==
    \/ Due_Tick
    \/ Due_submit_card_review
    \/ Due_submit_card_review_update
    \/ Due_get_deck_review_cards
    \/ Due_get_due_topics

DueSpec == DueInit /\ [][DueNext]_vars

\* the answer resp of a due query lists topic t
ReturnedAsDue(resp, t) ==
    \/ /\ resp.op = "get_deck_review_cards"
       /\ \E k \in 1 .. Len(resp.cards) : resp.cards[k].topic_id = t
    \/ /\ resp.op = "get_due_topics"
       /\ \E k \in 1 .. Len(resp.topics) : resp.topics[k].id = t

\* request r is a review that was written, and no later write has replaced
\* the next_review it stored
LastWrittenReview(r) ==
    /\ requests[r].op = "submit_card_review"
    /\ requests[r].pc = "done"
    /\ requests[r].status = 200
    /\ topics[requests[r].topic_id].next_review =
           timestamp(isoformat(requests[r].updates.next_review))

\* C29: after a review of a topic processed at time T was written, the
\* stored next_review is later than T, and as long as that next_review is the
\* one stored, no due query answered at a time now with T <= now < next_review
\* returns the topic.
C29_ReviewedTopicNotDue ==
    [][\A r \in 1 .. Len(requests') :
          LastWrittenReview(r)' =>
              LET T  == requests'[r].updates.last_reviewed
                  tp == topics'[requests'[r].topic_id]
              IN  /\ dt_lt(T, tp.next_review)
                  /\ (/\ response' # response
                      /\ dt_le(T, clock')
                      /\ dt_lt(clock', tp.next_review))
                         => ~ReturnedAsDue(response', tp.id)]_vars

\* topic 1 was reviewed at time 0, an hour and a half has passed and its
\* next_review is still to come: the review query for deck 1 found one due topic, topic 2
C29_Witness ==
    /\ Len(requests) >= 1
    /\ LastWrittenReview(1)
    /\ requests[1].topic_id = 1
    /\ requests[1].updates.last_reviewed = datetime(0, 0)
    /\ clock = datetime(5400, 0)
    /\ dt_lt(clock, topics[1].next_review)
    /\ response # None
    /\ response.op = "get_deck_review_cards"
    /\ response.status = 200
    /\ response.total_due = 1
    /\ Len(response.cards) = 1
    /\ response.cards[1].topic_id = 2

====
